---- MODULE Spec2Model ----
(***************************************************************************)
(* A model of the geometry pipeline of swp-charting: the linear and band   *)
(* scales, the layout pass of createChart.render and the chart lifecycle.  *)
(* JavaScript numbers are modelled as exact rationals <<n, d>> (d > 0, in  *)
(* lowest terms); <<0, 0>> stands for every non-finite result (NaN and the *)
(* infinities), which the arithmetic propagates as IEEE arithmetic does.   *)
(***************************************************************************)
EXTENDS Integers, Sequences, FiniteSets, TLC

VARIABLES
  lin,        \* the linear scale under test: the closure of createLinearScale
  linCall,    \* the last call made on it and what it returned
  band,       \* the band scale under test: the closure of createBandScale
  bandSeen,   \* what the calls made on it so far returned
  currentOptions,  \* createChart: the chart's current options
  containerWidth,  \* container.clientWidth
  layout,          \* the geometry the latest render pass computed
  phase,           \* the chart handle: "uncreated", "live", "failed", "destroyed"
  resizeObserver,  \* TRUE while a ResizeObserver observes the container
  resizeTimeout,   \* TRUE while the debounce timer is pending
  lastRender,      \* the entry point of the latest render pass and how it ended
  curve,      \* the points handed to a curve generator and the path it returned
  pie,        \* the series handed to renderPie and the result it returned
  annot,      \* the annotations handed to renderAnnotations and what was drawn
  alias,      \* the arrays a caller shares with a scale, and the accessor results
  createOptions,   \* createChart: its options argument, which render() still reads
  dom,             \* createChart: svg, tooltip, legend, hoverState and the elements
                   \* and listeners that are attached
  clock,           \* ms since the pending debounce timer was set
  hover,      \* setupHover: the closure of the hover and drag handlers
  picked      \* the bars a rectangle selection found and the points it reported

scaleVars == <<lin, linCall, band, bandSeen>>
lifeVars  == <<phase, resizeObserver, resizeTimeout, lastRender, createOptions, dom, clock>>
chartVars == <<currentOptions, containerWidth, layout, lifeVars>>
geomVars  == <<curve, pie, annot, alias, hover, picked>>
vars == <<lin, linCall, band, bandSeen, currentOptions, containerWidth, layout,
          phase, resizeObserver, resizeTimeout, lastRender, curve, pie, annot, alias,
          createOptions, dom, clock, hover, picked>>

-----------------------------------------------------------------------------
(* Numbers *)

Abs(i) == IF i < 0 THEN -i ELSE i

RECURSIVE Gcd(_, _)
Gcd(a, b) == IF b = 0 THEN a ELSE Gcd(b, a % b)

NaN == <<0, 0>>
IsFinite(q) == q[2] # 0

\* the rational n/d in lowest terms; n/0 is not finite
Q(n, d) ==
  IF d = 0 THEN NaN
  ELSE LET g == Gcd(Abs(n), Abs(d))
           s == IF d < 0 THEN -1 ELSE 1
       IN  <<(s * n) \div g, (s * d) \div g>>

R(i) == <<i, 1>>

RAdd(a, b) == IF IsFinite(a) /\ IsFinite(b) THEN Q(a[1] * b[2] + b[1] * a[2], a[2] * b[2]) ELSE NaN
RSub(a, b) == IF IsFinite(a) /\ IsFinite(b) THEN Q(a[1] * b[2] - b[1] * a[2], a[2] * b[2]) ELSE NaN
RMul(a, b) == IF IsFinite(a) /\ IsFinite(b) THEN Q(a[1] * b[1], a[2] * b[2]) ELSE NaN
RDiv(a, b) == IF IsFinite(a) /\ IsFinite(b) THEN Q(a[1] * b[2], a[2] * b[1]) ELSE NaN
RNeg(a)    == IF IsFinite(a) THEN <<-a[1], a[2]>> ELSE NaN

\* comparisons with a non-finite operand are false, as with NaN
RLt(a, b) == IsFinite(a) /\ IsFinite(b) /\ a[1] * b[2] < b[1] * a[2]
RLe(a, b) == IsFinite(a) /\ IsFinite(b) /\ a[1] * b[2] <= b[1] * a[2]
REq(a, b) == IsFinite(a) /\ IsFinite(b) /\ a = b

\* Math.floor, Math.ceil, Math.round (half up)
RFloor(a) == IF IsFinite(a) THEN R(a[1] \div a[2]) ELSE NaN
RCeil(a)  == IF IsFinite(a) THEN R(-((-a[1]) \div a[2])) ELSE NaN
RRound(a) == IF IsFinite(a) THEN R((2 * a[1] + a[2]) \div (2 * a[2])) ELSE NaN

\* the sequences over S of length at most n
SeqsUpTo(S, n) == UNION {[1..k -> S] : k \in 0..n}

RMax(a, b) == IF RLt(a, b) THEN b ELSE a

RECURSIVE Pow10(_)
Pow10(k) == IF k = 0 THEN R(1)
            ELSE IF k > 0 THEN RMul(R(10), Pow10(k - 1))
            ELSE RDiv(Pow10(k + 1), R(10))

\* d has no prime factor but 2 and 5, each at most `left` times
RECURSIVE DividesPow10(_, _, _)
DividesPow10(d, twos, fives) ==
  IF d = 1 THEN TRUE
  ELSE IF d % 2 = 0 /\ twos > 0 THEN DividesPow10(d \div 2, twos - 1, fives)
  ELSE IF d % 5 = 0 /\ fives > 0 THEN DividesPow10(d \div 5, twos, fives - 1)
  ELSE FALSE

RoundDigits == 10

\* Math.round(t * 1e10) / 1e10: the identity on a value with at most ten
\* decimals, the nearest such value otherwise
Round10(t) ==
  IF ~IsFinite(t) THEN NaN
  ELSE IF DividesPow10(t[2], RoundDigits, RoundDigits) THEN t
  ELSE LET e10 == RMul(Pow10(5), Pow10(5))
       IN  RDiv(RRound(RMul(t, e10)), e10)

-----------------------------------------------------------------------------
(* createLinearScale *)

MinTickCount == 2
DefaultTickCount == 5

\* the exponents Math.floor(Math.log10(x)) is searched in
MaxExp == 4
Exps == (-MaxExp)..MaxExp

\* Math.floor(Math.log10(x)) for a positive finite x
FloorLog10(x) == CHOOSE k \in Exps : RLe(Pow10(k), x) /\ RLt(x, Pow10(k + 1))

niceStepSnapDown(rawStep) ==
  IF ~IsFinite(rawStep) \/ RLt(rawStep, R(0)) THEN NaN
  ELSE IF rawStep = R(0) THEN R(0)
  ELSE LET magnitude  == Pow10(FloorLog10(rawStep))
           normalized == RDiv(rawStep, magnitude)
           nice == IF RLt(normalized, R(2)) THEN 1
                   ELSE IF RLt(normalized, R(5)) THEN 2
                   ELSE IF RLt(normalized, R(10)) THEN 5
                   ELSE 10
       IN  RMul(R(nice), magnitude)

\* niceStep: a negative or non-finite raw step has no logarithm (NaN); a raw
\* step of 0 gives magnitude 0 and the step 10 * 0
niceStep(rawStep) ==
  IF ~IsFinite(rawStep) \/ RLt(rawStep, R(0)) THEN NaN
  ELSE IF rawStep = R(0) THEN R(0)
  ELSE LET magnitude  == Pow10(FloorLog10(rawStep))
           normalized == RDiv(rawStep, magnitude)
           nice == IF RLe(normalized, R(1)) THEN 1
                   ELSE IF RLe(normalized, R(2)) THEN 2
                   ELSE IF RLe(normalized, R(5)) THEN 5
                   ELSE 10
       IN  RMul(R(nice), magnitude)

createLinearScale(domain, range) ==
  [d0 |-> domain[1], d1 |-> domain[2], r0 |-> range[1], r1 |-> range[2],
   domainSpan |-> RSub(domain[2], domain[1]),
   rangeSpan  |-> RSub(range[2], range[1])]

scaleFromZero(s, value) ==
  IF s.domainSpan = R(0) THEN s.r0
  ELSE RAdd(s.r0, RMul(RDiv(value, s.domainSpan), s.rangeSpan))

scaleNoZeroSpanGuard(s, value) ==
  RAdd(s.r0, RMul(RDiv(RSub(value, s.d0), s.domainSpan), s.rangeSpan))

\* scale(value)
scale(s, value) ==
  IF s.domainSpan = R(0) THEN s.r0
  ELSE RAdd(s.r0, RMul(RDiv(RSub(value, s.d0), s.domainSpan), s.rangeSpan))

\* the for loop of ticks: t = start; t <= end + step * 0.5; t += step
RECURSIVE ticksLoop(_, _, _, _)
ticksLoop(t, end, step, acc) ==
  IF RLe(t, RAdd(end, RMul(step, Q(1, 2))))
  THEN ticksLoop(RAdd(t, step), end, step, Append(acc, Round10(t)))
  ELSE acc

\* scale.ticks(count)
ticks(s, count) ==
  LET c     == IF count < MinTickCount THEN MinTickCount ELSE count
      step  == niceStep(RDiv(s.domainSpan, R(c - 1)))
      start == RMul(RCeil(RDiv(s.d0, step)), step)
      end   == RMul(RFloor(RDiv(s.d1, step)), step)
  IN  ticksLoop(start, end, step, <<>>)

-----------------------------------------------------------------------------
(* createBandScale *)

\* undefined, and an optional value: <<>> or <<v>>
Undefined == <<>>
Some(v) == <<v>>

RECURSIVE buildIndexMap(_, _, _)
\* domain.forEach((cat, i) => indexMap.set(cat, i)): a later duplicate wins
buildIndexMap(domain, i, map) ==
  IF i > Len(domain) THEN map
  ELSE buildIndexMap(domain, i + 1,
         [c \in DOMAIN map \cup {domain[i]} |-> IF c = domain[i] THEN i - 1 ELSE map[c]])

createBandScale(domain, range, paddingOuter) ==
  LET adjustedR0 == RAdd(range[1], paddingOuter)
      adjustedR1 == RSub(range[2], paddingOuter)
  IN  [domain |-> domain, r0 |-> range[1], r1 |-> range[2],
       n |-> Len(domain), paddingOuter |-> paddingOuter,
       adjustedR0 |-> adjustedR0, adjustedR1 |-> adjustedR1,
       adjustedSpan |-> RSub(adjustedR1, adjustedR0),
       indexMap |-> buildIndexMap(domain, 1, <<>>)]

bandScaleSlots(b, category) ==
  IF category \notin DOMAIN b.indexMap THEN Undefined
  ELSE IF b.n <= 1 THEN RAdd(b.adjustedR0, RDiv(b.adjustedSpan, R(2)))
  ELSE RAdd(b.adjustedR0, RMul(RDiv(R(b.indexMap[category]), R(b.n)), b.adjustedSpan))

\* scale(category) of the band scale
bandScale(b, category) ==
  IF category \notin DOMAIN b.indexMap THEN Undefined
  ELSE IF b.n <= 1 THEN RAdd(b.adjustedR0, RDiv(b.adjustedSpan, R(2)))
  ELSE RAdd(b.adjustedR0, RMul(RDiv(R(b.indexMap[category]), R(b.n - 1)), b.adjustedSpan))

\* scale.bandwidth()
bandwidth(b) ==
  IF b.n <= 1 THEN b.adjustedSpan
  ELSE RDiv(b.adjustedSpan, R(b.n - 1))

-----------------------------------------------------------------------------
(* createChart.render: the layout pass                                      *)
(*                                                                          *)
(* Options are records; an optional field is Undefined or Some(v).          *)
(*   series : a sequence of [type, yAxisIndex, data, barWidth]               *)
(*            type in "line" | "bar" | "pie"; yAxisIndex Undefined, Some(0), *)
(*            Some(1); data a sequence of [x |-> label, y |-> number];       *)
(*            barWidth (bar.width) Undefined, Auto or Some(pixels)           *)
(*   xAxis  : Undefined or Some([categories |-> sequence of labels])         *)
(*   yAxis  : [kind |-> "none"], [kind |-> "single", left |-> cfg] or        *)
(*            [kind |-> "pair", left |-> cfg, right |-> cfg] with            *)
(*            cfg = [min |-> optional, max |-> optional]                     *)
(*   width  : Undefined or Some(pixels)                                      *)

\* bar.width = 'auto' (no Some(v) is a pair)
Auto == <<"auto", "auto">>

DEFAULT_WIDTH == 650
DEFAULT_HEIGHT == 350
PaddingTop == 30
PaddingRight == 40
PaddingBottom == 30
PaddingLeft == 60
DEFAULT_PADDING ==
  [top |-> R(PaddingTop), right |-> R(PaddingRight),
   bottom |-> R(PaddingBottom), left |-> R(PaddingLeft)]

defaultBarWidth == 20
BarGapPx == 4
OuterMargin == 20

\* a ?? b
OrElse(opt, default) == IF opt = Undefined THEN default ELSE opt[1]

RECURSIVE Filter(_, _, _)
\* the indices i of seq, in order, with Keep[i]
Filter(seq, Keep, i) ==
  IF i > Len(seq) THEN <<>>
  ELSE (IF Keep[i] THEN <<i>> ELSE <<>>) \o Filter(seq, Keep, i + 1)

isPieChartEvery(series) ==
  \A i \in DOMAIN series : series[i].type = "pie"

isPieChartSome(series) ==
  Len(series) > 0 /\ \E i \in DOMAIN series : series[i].type = "pie"

\* series.length > 0 && series.every((s) => s.type === 'pie')
isPieChart(series) ==
  Len(series) > 0 /\ \A i \in DOMAIN series : series[i].type = "pie"

\* series.filter((s) => s.type === 'bar'), as indices into series
barSeriesOf(series) ==
  Filter(series, [i \in DOMAIN series |-> series[i].type = "bar"], 1)

RECURSIVE pushPoints(_, _, _, _)
\* the inner loop of the barSeriesAtX map: existing.push(i) for each point
pushPoints(data, j, i, map) ==
  IF j > Len(data) THEN map
  ELSE LET x == data[j].x
           existing == IF x \in DOMAIN map THEN map[x] ELSE <<>>
       IN  pushPoints(data, j + 1, i,
             [c \in DOMAIN map \cup {x} |-> IF c = x THEN Append(existing, i) ELSE map[c]])

RECURSIVE buildBarSeriesAtX(_, _, _, _)
\* x-category -> list of (0-based) bar series indices that have data there
buildBarSeriesAtX(series, bars, b, map) ==
  IF b > Len(bars) THEN map
  ELSE buildBarSeriesAtX(series, bars, b + 1,
         pushPoints(series[bars[b]].data, 1, b - 1, map))

RECURSIVE MaxOver(_, _)
\* Math.max(...values, floor) over a set of integers
MaxOver(S, floor) ==
  IF S = {} THEN floor
  ELSE LET v == CHOOSE v \in S : TRUE
           m == MaxOver(S \ {v}, floor)
       IN  IF v > m THEN v ELSE m

\* the outer padding of the band scale
outerPaddingOf(series, bars, barSeriesAtX) ==
  IF Len(bars) > 0
  THEN LET maxOverlap == MaxOver({Len(barSeriesAtX[c]) : c \in DOMAIN barSeriesAtX}, 1)
           barGap == IF maxOverlap > 1 THEN BarGapPx ELSE 0
           widths == {IF series[bars[b]].barWidth = Auto THEN defaultBarWidth
                      ELSE OrElse(series[bars[b]].barWidth, defaultBarWidth) :
                      b \in DOMAIN bars}
           maxBarWidth == CHOOSE m \in widths : \A w \in widths : w <= m
           groupWidth == (maxBarWidth + barGap) * maxOverlap - barGap
       IN  RAdd(Q(groupWidth, 2), R(OuterMargin))
  ELSE R(0)

RECURSIVE maxY(_, _, _, _)
\* the loops of calculateYMax over the series at the given indices
maxY(series, idxs, k, max) ==
  IF k > Len(idxs) THEN max
  ELSE LET data == series[idxs[k]].data
           m == MaxOver({data[j].y : j \in DOMAIN data}, max)
       IN  maxY(series, idxs, k + 1, m)

HeadroomNum == 11
HeadroomDen == 10

\* calculateYMax: Math.ceil(max * 1.1), computed exactly. (In doubles the
\* product of 1.1 and some multiples of 10, 50 the smallest, lands just above
\* the integer and is rounded up one further; the values drawn below, 0 to
\* 40, are ones whose product is exact.)
calculateYMax(series, idxs) ==
  RCeil(RMul(R(maxY(series, idxs, 1, 0)), Q(HeadroomNum, HeadroomDen)))

\* series.filter((s) => (s.yAxisIndex ?? 0) === 0) and
\* series.filter((s) => s.yAxisIndex === 1), as indices into series
leftAxisSeriesOf(series) ==
  Filter(series, [i \in DOMAIN series |-> OrElse(series[i].yAxisIndex, 0) = 0], 1)
rightAxisSeriesOf(series) ==
  Filter(series, [i \in DOMAIN series |-> series[i].yAxisIndex = Some(1)], 1)

\* the domain [yMin, yMax] of one numeric axis
yDomain(cfg, series, idxs) ==
  LET yMin == OrElse(cfg.min, R(0))
      yMax == OrElse(cfg.max, calculateYMax(series, idxs))
  IN  IF yMin = yMax THEN <<yMin, RAdd(yMin, R(1))>> ELSE <<yMin, yMax>>

NoAxisConfig == [min |-> Undefined, max |-> Undefined]

seriesYScaleAlwaysPrimary(s, yScale, yScale2) == "yScale"

\* (s.yAxisIndex === 1 && yScale2) ? yScale2 : yScale
seriesYScale(s, yScale, yScale2) ==
  IF s.yAxisIndex = Some(1) /\ yScale2 # Undefined THEN "yScale2" ELSE "yScale"

RECURSIVE computePointsUnknownAtZero(_, _, _, _)
computePointsUnknownAtZero(data, j, xScale, yScale) ==
  IF j > Len(data) THEN <<>>
  ELSE LET x == bandScale(xScale, data[j].x)
       IN  <<[x |-> IF x = Undefined THEN R(0) ELSE x,
              y |-> scale(yScale, R(data[j].y)),
              dataX |-> data[j].x, dataY |-> data[j].y]>>
           \o computePointsUnknownAtZero(data, j + 1, xScale, yScale)

RECURSIVE computePoints(_, _, _, _)
\* the computed points of one series: a point whose category the band scale
\* does not know is skipped
computePoints(data, j, xScale, yScale) ==
  IF j > Len(data) THEN <<>>
  ELSE LET x == bandScale(xScale, data[j].x)
       IN  (IF x = Undefined THEN <<>>
            ELSE <<[x |-> x, y |-> scale(yScale, R(data[j].y)),
                    dataX |-> data[j].x, dataY |-> data[j].y]>>)
           \o computePoints(data, j + 1, xScale, yScale)

\* Array.prototype.indexOf, 0-based, -1 when absent
indexOf(seq, v) ==
  IF \E k \in DOMAIN seq : seq[k] = v
  THEN (CHOOSE k \in DOMAIN seq : seq[k] = v /\ \A k2 \in 1..(k - 1) : seq[k2] # v) - 1
  ELSE -1

AutoWidthNum == 8
AutoWidthDen == 10

RECURSIVE barLoop(_, _, _, _, _, _)
\* the loop of renderBar over the computed points
barLoop(points, j, barWidth, baseline, seriesIndex, barSeriesAtX) ==
  IF j > Len(points) THEN <<>>
  ELSE LET point == points[j]
           barHeight == RSub(baseline, point.y)
           seriesAtThisX == IF point.dataX \in DOMAIN barSeriesAtX
                            THEN barSeriesAtX[point.dataX] ELSE <<seriesIndex>>
           countAtX == Len(seriesAtThisX)
           indexAtX == indexOf(seriesAtThisX, seriesIndex)
           gap == IF countAtX > 1 THEN R(BarGapPx) ELSE R(0)
           groupWidth == RSub(RMul(RAdd(barWidth, gap), R(countAtX)), gap)
           groupOffset == RDiv(RNeg(groupWidth), R(2))
           barOffset == RAdd(groupOffset, RMul(R(indexAtX), RAdd(barWidth, gap)))
       IN  (IF RLe(barHeight, R(0)) THEN <<>>
            ELSE <<[x |-> RAdd(point.x, barOffset), y |-> point.y,
                    width |-> barWidth, height |-> barHeight,
                    dataX |-> point.dataX, dataY |-> point.dataY]>>)
           \o barLoop(points, j + 1, barWidth, baseline, seriesIndex, barSeriesAtX)

\* renderBar: the rectangles of one bar series
renderBar(s, computedPoints, baseline, seriesIndex, barSeriesAtX, bw) ==
  IF Len(computedPoints) = 0 THEN <<>>
  ELSE LET barWidth == IF s.barWidth = Auto
                       THEN RMul(bw, Q(AutoWidthNum, AutoWidthDen))
                       ELSE R(OrElse(s.barWidth, defaultBarWidth))
       IN  barLoop(computedPoints, 1, barWidth, baseline, seriesIndex, barSeriesAtX)

\* the number of bar series among series[1..i-1]: barSeriesIndex when series i
\* is reached
barSeriesIndexAt(series, i) ==
  Cardinality({k \in 1..(i - 1) : series[k].type = "bar"})

Thrown == [thrown |-> TRUE]

\* one render pass over the options and the container's width
render(options, clientWidth) ==
  LET series  == options.series
      width   == R(OrElse(options.width,
                          IF clientWidth > 0 THEN clientWidth ELSE DEFAULT_WIDTH))
      padding == DEFAULT_PADDING
      chartWidth  == RSub(RSub(width, padding.left), padding.right)
      chartHeight == RSub(RSub(R(DEFAULT_HEIGHT), padding.top), padding.bottom)
      bars == barSeriesOf(series)
      barSeriesAtX == buildBarSeriesAtX(series, bars, 1, <<>>)
      outerPadding == outerPaddingOf(series, bars, barSeriesAtX)
  IN
  IF isPieChart(series)
  THEN [thrown |-> FALSE, pie |-> TRUE, width |-> width,
        xScale |-> Undefined, yScale |-> Undefined, yScale2 |-> Undefined,
        seriesYScale |-> <<>>, pointsBySeries |-> <<>>, barRects |-> <<>>]
  ELSE IF options.xAxis = Undefined THEN Thrown
  ELSE
  LET xAxis  == options.xAxis[1]
      xScale == createBandScale(xAxis.categories,
                  <<padding.left, RSub(width, padding.right)>>, outerPadding)
      isDualAxis == options.yAxis.kind = "pair"
      leftAxisConfig  == IF options.yAxis.kind = "none" THEN NoAxisConfig
                         ELSE options.yAxis.left
      rightAxisConfig == IF isDualAxis THEN options.yAxis.right ELSE NoAxisConfig
      leftAxisSeries  == leftAxisSeriesOf(series)
      rightAxisSeries == rightAxisSeriesOf(series)
      yRange == <<RAdd(padding.top, chartHeight), padding.top>>
      yScale == createLinearScale(yDomain(leftAxisConfig, series, leftAxisSeries), yRange)
      yScale2 == IF isDualAxis /\ Len(rightAxisSeries) > 0
                 THEN createLinearScale(
                        yDomain(rightAxisConfig, series, rightAxisSeries), yRange)
                 ELSE Undefined
      bw == bandwidth(xScale)
      which == [i \in DOMAIN series |-> seriesYScale(series[i], yScale, yScale2)]
      points == [i \in DOMAIN series |->
                   computePoints(series[i].data, 1, xScale,
                                 IF which[i] = "yScale2" THEN yScale2 ELSE yScale)]
      rects == [i \in DOMAIN series |->
                  IF series[i].type = "bar"
                  THEN renderBar(series[i], points[i], RAdd(padding.top, chartHeight),
                                 barSeriesIndexAt(series, i), barSeriesAtX, bw)
                  ELSE <<>>]
  IN  [thrown |-> FALSE, pie |-> FALSE, width |-> width,
       xScale |-> xScale, yScale |-> yScale, yScale2 |-> yScale2,
       seriesYScale |-> which, pointsBySeries |-> points, barRects |-> rects]

-----------------------------------------------------------------------------
(* linearCurve and monotoneCurve                                           *)
(*                                                                          *)
(* A point is [x |-> number, y |-> number]. A path string is modelled as    *)
(* the sequence of its commands, "M x,y", "L x,y" and                       *)
(* "C cp1x,cp1y cp2x,cp2y x,y", each number standing for its decimal text;  *)
(* the empty string is the empty sequence.                                  *)

MoveTo(p) == [op |-> "M", to |-> p]
LineTo(p) == [op |-> "L", to |-> p]
CubicTo(cp1, cp2, p) == [op |-> "C", cp1 |-> cp1, cp2 |-> cp2, to |-> p]

RECURSIVE linearLoop(_, _, _)
\* the for loop of linearCurve: path += ` L ${p.x},${p.y}`
linearLoop(points, i, path) ==
  IF i > Len(points) THEN path
  ELSE linearLoop(points, i + 1, Append(path, LineTo(points[i])))

linearCurveClosed(points) ==
  IF Len(points) = 0 THEN <<>>
  ELSE IF Len(points) = 1 THEN <<MoveTo(points[1])>>
  ELSE Append(linearLoop(points, 2, <<MoveTo(points[1])>>), LineTo(points[1]))

linearCurve(points) ==
  IF Len(points) = 0 THEN <<>>
  ELSE IF Len(points) = 1 THEN <<MoveTo(points[1])>>
  ELSE linearLoop(points, 2, <<MoveTo(points[1])>>)

\* Math.abs, Math.min, Math.sign
RAbs(a) == IF IsFinite(a) THEN <<Abs(a[1]), a[2]>> ELSE NaN
RMin(a, b) == IF ~IsFinite(a) \/ ~IsFinite(b) THEN NaN ELSE IF RLt(b, a) THEN b ELSE a
RSign(a) == IF ~IsFinite(a) THEN NaN
            ELSE IF a[1] > 0 THEN R(1) ELSE IF a[1] < 0 THEN R(-1) ELSE R(0)

\* dx[i], dy[i] and m[i] = dx[i] === 0 ? 0 : dy[i] / dx[i], for the segment
\* from points[i] to points[i + 1] (1-based)
segDxOf(points, i) == RSub(points[i + 1].x, points[i].x)
segDyOf(points, i) == RSub(points[i + 1].y, points[i].y)
slopes(points) ==
  [i \in 1..(Len(points) - 1) |->
     IF segDxOf(points, i) = R(0) THEN R(0)
     ELSE RDiv(segDyOf(points, i), segDxOf(points, i))]

TangentClamp == 3

interiorTangentUnclamped(mPrev, mCurr) ==
  IF RLe(RMul(mPrev, mCurr), R(0)) THEN R(0)
  ELSE RDiv(RAdd(mPrev, mCurr), R(2))

interiorTangentMean(mPrev, mCurr) ==
  LET t == RDiv(RAdd(mPrev, mCurr), R(2))
      maxSlope == RMul(R(TangentClamp), RMin(RAbs(mPrev), RAbs(mCurr)))
  IN  IF RLt(maxSlope, RAbs(t)) THEN RMul(RSign(t), maxSlope) ELSE t

\* the tangent at an interior point between the slopes mPrev and mCurr
interiorTangent(mPrev, mCurr) ==
  IF RLe(RMul(mPrev, mCurr), R(0)) THEN R(0)
  ELSE LET t == RDiv(RAdd(mPrev, mCurr), R(2))
           maxSlope == RMul(R(TangentClamp), RMin(RAbs(mPrev), RAbs(mCurr)))
       IN  IF RLt(maxSlope, RAbs(t)) THEN RMul(RSign(t), maxSlope) ELSE t

\* tangents[1..n]: the end points take the slope of their only segment
tangentsOf(points) ==
  LET n == Len(points)
      m == slopes(points)
  IN  [i \in 1..n |->
         IF i = 1 THEN m[1]
         ELSE IF i = n THEN m[n - 1]
         ELSE interiorTangent(m[i - 1], m[i])]

RECURSIVE cubicLoop(_, _, _, _)
\* the path-building loop of monotoneCurve
cubicLoop(points, tangents, i, path) ==
  IF i > Len(points) - 1 THEN path
  ELSE LET p0 == points[i]
           p1 == points[i + 1]
           segDx == RDiv(segDxOf(points, i), R(3))
           cp1 == [x |-> RAdd(p0.x, segDx), y |-> RAdd(p0.y, RMul(segDx, tangents[i]))]
           cp2 == [x |-> RSub(p1.x, segDx), y |-> RSub(p1.y, RMul(segDx, tangents[i + 1]))]
       IN  cubicLoop(points, tangents, i + 1, Append(path, CubicTo(cp1, cp2, p1)))

monotoneCurveFromThird(points) ==
  IF Len(points) = 0 THEN <<>>
  ELSE IF Len(points) = 1 THEN <<MoveTo(points[1])>>
  ELSE IF Len(points) = 2 THEN <<MoveTo(points[1]), LineTo(points[2])>>
  ELSE cubicLoop(points, tangentsOf(points), 2, <<MoveTo(points[1])>>)

monotoneCurve(points) ==
  IF Len(points) = 0 THEN <<>>
  ELSE IF Len(points) = 1 THEN <<MoveTo(points[1])>>
  ELSE IF Len(points) = 2 THEN <<MoveTo(points[1]), LineTo(points[2])>>
  ELSE cubicLoop(points, tangentsOf(points), 1, <<MoveTo(points[1])>>)

-----------------------------------------------------------------------------
(* renderPie                                                                *)
(*                                                                          *)
(* Every angle renderPie computes is a rational multiple of Math.PI; an     *)
(* angle is modelled as that multiple (-1/2 is -Math.PI / 2, 2 a full       *)
(* turn).                                                                   *)

HalfTurnDegrees == 180

RECURSIVE sumY(_, _, _)
\* the running sum of point.y over data[j..]
sumY(data, j, sum) ==
  IF j > Len(data) THEN sum
  ELSE sumY(data, j + 1, RAdd(sum, data[j].y))

RECURSIVE pieTotal(_, _, _)
\* total: the sum of all data points of the series of type 'pie'
pieTotal(series, i, total) ==
  IF i > Len(series) THEN total
  ELSE pieTotal(series, i + 1,
         IF series[i].type = "pie" THEN sumY(series[i].data, 1, total) ELSE total)

breakdownAlways(data) ==
  Some([j \in DOMAIN data |-> [label |-> data[j].x, value |-> data[j].y]])

\* breakdown: one entry per data point if there are several, else undefined
breakdownOf(data) ==
  IF Len(data) > 1
  THEN Some([j \in DOMAIN data |-> [label |-> data[j].x, value |-> data[j].y]])
  ELSE Undefined

sliceAngleHalf(value, total) == RDiv(value, total)

\* sliceAngle = (value / total) * 2 * Math.PI
sliceAngleOf(value, total) == RMul(RDiv(value, total), R(2))

RECURSIVE sliceLoop(_, _, _, _, _, _)
\* the loop of renderPie over the series
sliceLoop(series, i, total, padAngle, currentAngle, slices) ==
  IF i > Len(series) THEN slices
  ELSE LET s == series[i]
       IN  IF s.type # "pie" \/ Len(s.data) = 0
           THEN sliceLoop(series, i + 1, total, padAngle, currentAngle, slices)
           ELSE LET value      == sumY(s.data, 1, R(0))
                    percent    == RMul(RDiv(value, total), R(100))
                    sliceAngle == sliceAngleOf(value, total)
                    startAngle == RAdd(currentAngle, RDiv(padAngle, R(2)))
                    endAngle   == RSub(RAdd(currentAngle, sliceAngle), RDiv(padAngle, R(2)))
                    slice == [seriesIndex |-> i - 1, name |-> s.name, value |-> value,
                              percent |-> percent, startAngle |-> startAngle,
                              endAngle |-> endAngle,
                              midAngle |-> RDiv(RAdd(startAngle, endAngle), R(2)),
                              breakdown |-> breakdownOf(s.data)]
                IN  sliceLoop(series, i + 1, total, padAngle,
                              RAdd(currentAngle, sliceAngle), Append(slices, slice))

renderPieNoZeroGuard(series, padAngleDegrees) ==
  LET padAngle == RDiv(R(padAngleDegrees), R(HalfTurnDegrees))
      total    == pieTotal(series, 1, R(0))
  IN  [slices |-> sliceLoop(series, 1, total, padAngle, Q(-1, 2), <<>>), total |-> total]

\* renderPie({ series, pieStyle: { padAngle } })
renderPie(series, padAngleDegrees) ==
  LET padAngle == RDiv(R(padAngleDegrees), R(HalfTurnDegrees))
      total    == pieTotal(series, 1, R(0))
  IN  IF total = R(0) THEN [slices |-> <<>>, total |-> R(0)]
      ELSE [slices |-> sliceLoop(series, 1, total, padAngle, Q(-1, 2), <<>>),
            total |-> total]

-----------------------------------------------------------------------------
(* renderAnnotations                                                        *)
(*                                                                          *)
(* An anchor (x: string | number) is a category index, AtIndex(i), or a     *)
(* category label, AtLabel(l). An annotation is                             *)
(* [type, x, x2, label, labelPosition, width], the optional fields          *)
(* Undefined or Some(v).                                                    *)

AtIndex(i) == [kind |-> "index", index |-> i, label |-> ""]
AtLabel(l) == [kind |-> "label", index |-> 0, label |-> l]

LabelAbove == 8
LabelBelow == 15

\* annotation.width ?? 1.5
defaultLineWidth == Q(3, 2)

\* resolveXPosition: an index is looked up in categories first
resolveXPosition(x, xScale, categories) ==
  IF x.kind = "index"
  THEN IF x.index + 1 \in DOMAIN categories  \* categories[x], 0-based
       THEN bandScale(xScale, categories[x.index + 1])
       ELSE Undefined
  ELSE bandScale(xScale, x.label)

NoElements == [lines |-> <<>>, regions |-> <<>>, labels |-> <<>>]

RECURSIVE annotationLoop(_, _, _, _, _, _)
\* the loop of renderAnnotations
annotationLoop(annotations, i, xScale, categories, box, acc) ==
  IF i > Len(annotations) THEN acc
  ELSE
  LET annotation == annotations[i]
      lineWidth == OrElse(annotation.width, defaultLineWidth)
      labelY == IF annotation.labelPosition = Some("bottom")
                THEN RAdd(box.chartBottom, R(LabelBelow))
                ELSE RSub(box.chartTop, R(LabelAbove))
      x1 == resolveXPosition(annotation.x, xScale, categories)
      next(a) == annotationLoop(annotations, i + 1, xScale, categories, box, a)
  IN  IF annotation.type = "verticalLine"
      THEN IF x1 = Undefined THEN next(acc)
           ELSE LET line == [x1 |-> x1, y1 |-> box.chartTop,
                             x2 |-> x1, y2 |-> box.chartBottom]
                    withLine == [acc EXCEPT !.lines = Append(@, line)]
                IN  next(IF annotation.label # Undefined
                         THEN [withLine EXCEPT !.labels =
                                 Append(@, [x |-> x1, y |-> labelY,
                                            text |-> annotation.label[1]])]
                         ELSE withLine)
      ELSE IF annotation.type = "region"
      THEN LET x2 == IF annotation.x2 # Undefined
                     THEN resolveXPosition(annotation.x2[1], xScale, categories)
                     ELSE Undefined
           IN  IF x1 = Undefined THEN next(acc)
               ELSE LET regionX == IF x2 # Undefined THEN RMin(x1, x2)
                                   ELSE RSub(x1, RDiv(lineWidth, R(2)))
                        regionWidth == IF x2 # Undefined THEN RAbs(RSub(x2, x1))
                                       ELSE lineWidth
                        region == [x |-> regionX, y |-> box.chartTop,
                                   width |-> regionWidth, height |-> box.chartHeight]
                        withRegion == [acc EXCEPT !.regions = Append(@, region)]
                    IN  next(IF annotation.label # Undefined
                             THEN [withRegion EXCEPT !.labels =
                                     Append(@, [x |-> RAdd(regionX, RDiv(regionWidth, R(2))),
                                                y |-> labelY,
                                                text |-> annotation.label[1]])]
                             ELSE withRegion)
      ELSE next(acc)

\* renderAnnotations({ annotations, xScale, height, padding, categories })
renderAnnotations(annotations, xScale, height, padding, categories) ==
  LET chartTop    == padding.top
      chartBottom == RSub(height, padding.bottom)
      box == [chartTop |-> chartTop, chartBottom |-> chartBottom,
              chartHeight |-> RSub(chartBottom, chartTop)]
  IN  annotationLoop(annotations, 1, xScale, categories, box, NoElements)

-----------------------------------------------------------------------------
(* createChart.render: the elements                                         *)
(*                                                                          *)
(* Every element and every hover state a render pass creates is named by    *)
(* the number of that pass. The closure variables svg, tooltip, legend and  *)
(* hoverState hold such a number, or Null; svgs is what the SVG container   *)
(* holds, tooltips and legends what the wrapper holds, listeners the hover  *)
(* states whose listeners are registered.                                   *)

Null == 0

NoDom ==
  [svg |-> Null, tooltip |-> Null, legend |-> Null, hoverState |-> Null,
   svgs |-> {}, tooltips |-> {}, legends |-> {}, listeners |-> {},
   hoverTooltip |-> Null, wrapper |-> FALSE, renders |-> 0,
   annotations |-> NoElements, paths |-> <<>>, slices |-> <<>>, clientWidth |-> 0]

\* "Clean up previous render": a closure variable is not reset to null
cleanUpKeepsSvg(d) ==
  [d EXCEPT !.tooltips = @ \ {d.tooltip}, !.legends = @ \ {d.legend},
            !.listeners = @ \ {d.hoverState}]

cleanUp(d) ==
  [d EXCEPT !.svgs = @ \ {d.svg}, !.tooltips = @ \ {d.tooltip},
            !.legends = @ \ {d.legend}, !.listeners = @ \ {d.hoverState}]

\* the annotation elements of a render pass
drawAnnotations(annotationsOption, xAxis, xScale) ==
  IF annotationsOption # Undefined /\ Len(annotationsOption[1]) > 0
  THEN renderAnnotations(annotationsOption[1], xScale, R(DEFAULT_HEIGHT),
                         DEFAULT_PADDING, xAxis.categories)
  ELSE NoElements

\* tooltipOption !== false
tooltipWanted(opts) == opts.tooltip # Some(FALSE)

\* legendOption !== false && legendOption !== undefined
legendWanted(opts) == opts.legend # Some(FALSE) /\ opts.legend # Undefined

\* the annotations option a render pass reads: that of createChart's argument
annotationsRead(current, original) == original.annotations

\* renderLine: the path data of every line series (line.curve defaults to
\* 'smooth'); the compared mutant keeps the paths of the pass before
linePathsKept(series, result) ==
  dom.paths \o [i \in DOMAIN series |->
                 IF series[i].type = "line" THEN monotoneCurve(result.pointsBySeries[i])
                 ELSE <<>>]

linePaths(series, result) ==
  [i \in DOMAIN series |->
     IF series[i].type = "line" THEN monotoneCurve(result.pointsBySeries[i]) ELSE <<>>]

\* renderPieChart: the slices renderPie returns (no pie style, so no pad angle)
pieSlices(series) ==
  renderPie([i \in DOMAIN series |->
               [type |-> series[i].type, name |-> "",
                data |-> [j \in DOMAIN series[i].data |->
                            [x |-> series[i].data[j].x,
                             y |-> R(series[i].data[j].y)]]]],
            0).slices

\* what one render pass does to the elements; result is what render computed
\* from the same options
renderElements(d, current, original, clientWidth, result) ==
  LET n == d.renders + 1
      cleaned == [cleanUp(d) EXCEPT !.renders = n, !.clientWidth = clientWidth,
                                    !.annotations = NoElements, !.paths = <<>>,
                                    !.slices = <<>>]
      newTooltip == IF tooltipWanted(current) THEN n ELSE d.tooltip
      newLegend  == IF legendWanted(current) THEN n ELSE d.legend
  IN  IF result.thrown THEN cleaned
      ELSE [cleaned EXCEPT
              !.svg = n,
              !.paths = IF result.pie THEN <<>> ELSE linePaths(current.series, result),
              !.slices = IF result.pie THEN pieSlices(current.series) ELSE <<>>,
              !.annotations =
                 IF result.pie THEN NoElements
                 ELSE drawAnnotations(annotationsRead(current, original),
                                      current.xAxis[1], result.xScale),
              !.tooltip = newTooltip,
              !.tooltips = IF tooltipWanted(current) THEN @ \cup {n} ELSE @,
              !.hoverState = n,
              !.hoverTooltip = newTooltip,
              !.listeners = @ \cup {n},
              !.svgs = @ \cup {n},
              !.legend = newLegend,
              !.legends = IF legendWanted(current) THEN @ \cup {n} ELSE @]

\* destroy(): the hover state, the tooltip, the legend and the wrapper go
destroyElements(d) ==
  [d EXCEPT !.listeners = @ \ {d.hoverState}, !.tooltips = @ \ {d.tooltip},
            !.legends = @ \ {d.legend}, !.wrapper = FALSE]

-----------------------------------------------------------------------------
(* setupHover: findPointsInRect                                             *)
(*                                                                          *)
(* A reported point is [seriesIndex, value, x]: value is the value of the   *)
(* ChartClickPoint, x the category label the point contributes to the       *)
(* bounds of the selection.                                                 *)

RECURSIVE linePointsInRect(_, _, _, _)
\* the computed points of a line series that lie inside the rectangle
linePointsInRect(sel, seriesPoints, j, i) ==
  IF j > Len(seriesPoints) THEN <<>>
  ELSE LET point == seriesPoints[j]
       IN  (IF /\ RLe(sel.minX, point.x) /\ RLe(point.x, sel.maxX)
               /\ RLe(sel.minY, point.y) /\ RLe(point.y, sel.maxY)
            THEN <<[seriesIndex |-> i - 1, value |-> point.dataY, x |-> point.dataX]>>
            ELSE <<>>)
           \o linePointsInRect(sel, seriesPoints, j + 1, i)

\* centerX inside the rectangle and the bar overlapping it vertically
barInRect(sel, rect) ==
  LET centerX == RAdd(rect.x, RDiv(rect.width, R(2)))
  IN  /\ RLe(sel.minX, centerX) /\ RLe(centerX, sel.maxX)
      /\ RLe(rect.y, sel.maxY) /\ RLe(sel.minY, RAdd(rect.y, rect.height))

RECURSIVE barPointsInRect(_, _, _, _, _)
\* bars.forEach((rect, barIdx) => ...): the point is s.data[barIdx]
barPointsInRect(sel, bars, barIdx, data, i) ==
  IF barIdx > Len(bars) THEN <<>>
  ELSE (IF barInRect(sel, bars[barIdx]) /\ barIdx \in DOMAIN data
        THEN <<[seriesIndex |-> i - 1, value |-> data[barIdx].y, x |-> data[barIdx].x]>>
        ELSE <<>>)
       \o barPointsInRect(sel, bars, barIdx + 1, data, i)

RECURSIVE findPointsInRect(_, _, _, _, _)
\* findPointsInRect(minX, maxX, minY, maxY, series, pointsBySeries, barElements),
\* from series i on
findPointsInRect(sel, series, pointsBySeries, barElements, i) ==
  IF i > Len(series) THEN <<>>
  ELSE (IF series[i].type # "bar"
        THEN linePointsInRect(sel, pointsBySeries[i], 1, i)
        ELSE barPointsInRect(sel, barElements[i], 1, series[i].data, i))
       \o findPointsInRect(sel, series, pointsBySeries, barElements, i + 1)

-----------------------------------------------------------------------------
(* setupHover: the hover and drag handlers                                  *)
(*                                                                          *)
(* The closure is a record h: isDragging, dragStart, selectionRect,         *)
(* wasDragging and currentIndex as in the code; radii and opacities are the *)
(* r of every circle ("normal" or "hover") and the opacity of every bar, in *)
(* tenths of the base opacity; rects is the number of selection rectangles  *)
(* in the SVG; listening is FALSE once destroy removed the listeners;       *)
(* events is the sequence of custom events dispatched on document. g is the *)
(* geometry the handlers were set up with: series, pointsBySeries,          *)
(* barElements and xPositions.                                              *)

DragThreshold == 5
SelectThreshold == 10
FullTenths == 10
HoverDimTenths == 6
SelectDimTenths == 4

\* Math.abs(pos - mouseX) minimal, the first such index (0-based)
nearestIndexOf(xPositions, mouseX) ==
  (CHOOSE i \in DOMAIN xPositions :
     /\ \A j \in DOMAIN xPositions :
          RLe(RAbs(RSub(xPositions[i], mouseX)), RAbs(RSub(xPositions[j], mouseX)))
     /\ \A j \in 1..(i - 1) :
          RLt(RAbs(RSub(xPositions[i], mouseX)), RAbs(RSub(xPositions[j], mouseX)))) - 1

\* updatePointSizes(pointElements, series, activeIndex, isHovering, xPositions)
updatePointSizes(g, activeIndex, isHovering) ==
  [i \in DOMAIN g.pointElements |->
     [j \in DOMAIN g.pointElements[i] |->
        IF /\ isHovering /\ activeIndex >= 0
           /\ RLt(RAbs(RSub(g.pointElements[i][j].x, g.xPositions[activeIndex + 1])), R(1))
        THEN "hover" ELSE "normal"]]

\* updateBarStyles(barElements, series, activeIndex, isHovering, xPositions)
updateBarStyles(g, activeIndex, isHovering) ==
  [i \in DOMAIN g.barElements |->
     [j \in DOMAIN g.barElements[i] |->
        LET rect == g.barElements[i][j]
            centerX == RAdd(rect.x, RDiv(rect.width, R(2)))
            isActive == /\ isHovering /\ activeIndex >= 0
                        /\ RLt(RAbs(RSub(centerX, g.xPositions[activeIndex + 1])),
                               rect.width)
        IN  IF isHovering THEN (IF isActive THEN FullTenths ELSE HoverDimTenths)
            ELSE FullTenths]]

pointInRect(sel, point) ==
  /\ RLe(sel.minX, point.x) /\ RLe(point.x, sel.maxX)
  /\ RLe(sel.minY, point.y) /\ RLe(point.y, sel.maxY)

\* highlightElementsInRect: the radii and the bar opacities
highlightedRadii(g, sel) ==
  [i \in DOMAIN g.pointElements |->
     [j \in DOMAIN g.pointElements[i] |->
        IF pointInRect(sel, g.pointsBySeries[i][j]) THEN "hover" ELSE "normal"]]

highlightedOpacities(g, sel) ==
  [i \in DOMAIN g.barElements |->
     [j \in DOMAIN g.barElements[i] |->
        IF barInRect(sel, g.barElements[i][j]) THEN FullTenths ELSE SelectDimTenths]]

\* resetElementHighlights
normalRadii(g) ==
  [i \in DOMAIN g.pointElements |-> [j \in DOMAIN g.pointElements[i] |-> "normal"]]
baseOpacities(g) ==
  [i \in DOMAIN g.barElements |-> [j \in DOMAIN g.barElements[i] |-> FullTenths]]

resetElementHighlights(g, h) ==
  [h EXCEPT !.radii = normalRadii(g), !.opacities = baseOpacities(g)]

\* if (selectionRect) { selectionRect.remove(); selectionRect = null;
\*                      resetElementHighlights(...) }
clearSelection(g, h) ==
  IF h.selectionRect # Undefined
  THEN resetElementHighlights(g, [h EXCEPT !.selectionRect = Undefined,
                                           !.rects = @ - 1])
  ELSE h

\* a mousedown that keeps the rectangle of the selection before
handleMouseDownKeepsRect(g, h, pos) ==
  [h EXCEPT !.dragStart = Some(pos), !.isDragging = TRUE, !.wasDragging = FALSE,
            !.selectionRect = Some([x |-> pos.x, y |-> pos.y,
                                    width |-> R(0), height |-> R(0)]),
            !.rects = @ + 1]

handleMouseDown(g, h, pos) ==
  LET cleared == clearSelection(g, h)
  IN  [cleared EXCEPT !.dragStart = Some(pos), !.isDragging = TRUE,
                      !.wasDragging = FALSE,
                      !.selectionRect = Some([x |-> pos.x, y |-> pos.y,
                                              width |-> R(0), height |-> R(0)]),
                      !.rects = @ + 1]

\* the hover handler on the hover area; the tooltip is shown when the index
\* changes
handleMouseMove(g, h, pos) ==
  IF Len(g.xPositions) = 0 THEN h
  ELSE LET nearestIndex == nearestIndexOf(g.xPositions, pos.x)
       IN  [h EXCEPT !.hoverLine = TRUE,
                     !.radii = updatePointSizes(g, nearestIndex, TRUE),
                     !.opacities = updateBarStyles(g, nearestIndex, TRUE),
                     !.tooltipShown = IF h.currentIndex # nearestIndex THEN TRUE ELSE @,
                     !.currentIndex = nearestIndex]

handleMouseLeave(g, h) ==
  [h EXCEPT !.hoverLine = FALSE,
            !.radii = updatePointSizes(g, -1, FALSE),
            !.opacities = updateBarStyles(g, -1, FALSE),
            !.tooltipShown = FALSE,
            !.currentIndex = -1]

\* the rectangle between the drag start and a position
spanOf(start, pos) ==
  [minX |-> RMin(start.x, pos.x), maxX |-> RMax(start.x, pos.x),
   minY |-> RMin(start.y, pos.y), maxY |-> RMax(start.y, pos.y)]

\* the mousemove handler on document
handleDragMove(g, h, pos) ==
  IF ~h.isDragging \/ h.dragStart = Undefined \/ h.selectionRect = Undefined THEN h
  ELSE LET start == h.dragStart[1]
           sel == spanOf(start, pos)
           width  == RAbs(RSub(pos.x, start.x))
           height == RAbs(RSub(pos.y, start.y))
           moved == RLt(R(DragThreshold), width) \/ RLt(R(DragThreshold), height)
           dragging == h.wasDragging \/ moved
           drawn == [h EXCEPT !.wasDragging = dragging,
                              !.hoverLine = IF moved THEN FALSE ELSE @,
                              !.tooltipShown = IF moved THEN FALSE ELSE @,
                              !.selectionRect = Some([x |-> sel.minX, y |-> sel.minY,
                                                      width |-> width,
                                                      height |-> height])]
       IN  IF dragging
           THEN [drawn EXCEPT !.radii = highlightedRadii(g, sel),
                              !.opacities = highlightedOpacities(g, sel)]
           ELSE drawn

\* the mouseup handler on document
handleMouseUp(g, h, pos) ==
  IF ~h.isDragging \/ h.dragStart = Undefined THEN h
  ELSE LET start == h.dragStart[1]
           sel == spanOf(start, pos)
           isDragSelection ==
             \/ RLt(R(SelectThreshold), RSub(sel.maxX, sel.minX))
             \/ RLt(R(SelectThreshold), RSub(sel.maxY, sel.minY))
           points == findPointsInRect(sel, g.series, g.pointsBySeries, g.barElements, 1)
       IN  [h EXCEPT !.events = IF isDragSelection /\ Len(points) > 0
                                THEN Append(@, [type |-> "swp-chart-select",
                                                points |-> points])
                                ELSE @,
                     !.isDragging = FALSE,
                     !.dragStart = Undefined]

RECURSIVE pointsAtX(_, _, _)
\* the first point of every series within 1 px of x
pointsAtX(g, x, i) ==
  IF i > Len(g.series) THEN <<>>
  ELSE LET near == {j \in DOMAIN g.pointsBySeries[i] :
                      RLt(RAbs(RSub(g.pointsBySeries[i][j].x, x)), R(1))}
       IN  (IF near = {} THEN <<>>
            ELSE LET j == CHOOSE k \in near : \A l \in near : k <= l
                 IN  <<[seriesIndex |-> i - 1, value |-> g.pointsBySeries[i][j].dataY,
                        x |-> g.pointsBySeries[i][j].dataX]>>)
           \o pointsAtX(g, x, i + 1)

\* the click handler on the hover area
handleClick(g, h, pos) ==
  IF h.wasDragging THEN [h EXCEPT !.wasDragging = FALSE]
  ELSE LET cleared == clearSelection(g, h)
       IN  IF Len(g.xPositions) = 0 THEN cleared
           ELSE LET x == g.xPositions[nearestIndexOf(g.xPositions, pos.x) + 1]
                    points == pointsAtX(g, x, 1)
                IN  IF \E k \in DOMAIN points : points[k].x # ""
                    THEN [cleared EXCEPT !.events =
                            Append(@, [type |-> "swp-chart-click", points |-> points])]
                    ELSE cleared

\* HoverState.destroy
destroyHover(g, h) ==
  resetElementHighlights(g,
    IF h.selectionRect # Undefined
    THEN [h EXCEPT !.listening = FALSE, !.selectionRect = Undefined, !.rects = @ - 1]
    ELSE [h EXCEPT !.listening = FALSE])

-----------------------------------------------------------------------------
(* The linear scale harness: a scale is built from a domain and a range    *)
(* and then called.                                                         *)

DomainValues == {-5, 0, 3, 50, 920, 1000}
RangeValues  == {0, 300, 500}
ApplyValues  == {-5, 0, 3, 25, 50, 1000}
MaxCount == 7

NoCall == [op |-> "none"]
NotRendered == [thrown |-> FALSE, pie |-> FALSE, rendered |-> FALSE]
NoOptions == [series |-> <<>>]

\* the parts of the state a harness does not use
NoLinear == lin = createLinearScale(<<R(0), R(0)>>, <<R(0), R(0)>>) /\ linCall = NoCall
NoRender == [by |-> "none", threw |-> FALSE]
NoLife   == phase = "uncreated" /\ resizeObserver = FALSE /\ resizeTimeout = FALSE
            /\ lastRender = NoRender /\ createOptions = NoOptions /\ dom = NoDom
            /\ clock = 0
NoChart  == currentOptions = NoOptions /\ containerWidth = 0 /\ layout = NotRendered
            /\ NoLife

Idle == [op |-> "none"]
NoGeom == curve = Idle /\ pie = Idle /\ annot = Idle /\ alias = Idle /\ hover = Idle /\ picked = Idle

NoBand == [n |-> 0]
Uncalled == <<>>
NothingSeen == [applied |-> <<>>, bandwidth |-> Uncalled]

InitLinear ==
  /\ \E d0 \in DomainValues, d1 \in DomainValues, r0 \in RangeValues, r1 \in RangeValues :
       lin = createLinearScale(<<R(d0), R(d1)>>, <<R(r0), R(r1)>>)
  /\ linCall = NoCall
  /\ band = NoBand
  /\ bandSeen = NothingSeen
  /\ NoChart
  /\ NoGeom

LinearApply ==
  /\ \E v \in ApplyValues \cup {lin.d0[1], lin.d1[1]} :
       linCall' = [op |-> "apply", arg |-> R(v), result |-> scale(lin, R(v))]
  /\ UNCHANGED <<lin, band, bandSeen, chartVars, geomVars>>

LinearTicks ==
  /\ \E count \in 0..MaxCount :
       linCall' = [op |-> "ticks", arg |-> count, result |-> ticks(lin, count)]
  /\ UNCHANGED <<lin, band, bandSeen, chartVars, geomVars>>

LinearTicksDefault ==
  /\ linCall' = [op |-> "ticks", arg |-> DefaultTickCount,
                 result |-> ticks(lin, DefaultTickCount)]
  /\ UNCHANGED <<lin, band, bandSeen, chartVars, geomVars>>

NextLinear == LinearApply \/ LinearTicks \/ LinearTicksDefault

SpecLinear == InitLinear /\ [][NextLinear]_vars

-----------------------------------------------------------------------------
(* The band scale harness *)

Labels == {"Jan", "Feb", "Mar"}
UnknownLabel == "Dec"
MaxCats == 3
BandRanges == {<<0, 500>>, <<50, 550>>, <<500, 0>>}
BandPaddings == {0, 30}

InitBand ==
  /\ \E domain \in SeqsUpTo(Labels, MaxCats), range \in BandRanges, p \in BandPaddings :
       band = createBandScale(domain, <<R(range[1]), R(range[2])>>, R(p))
  /\ bandSeen = NothingSeen
  /\ NoLinear
  /\ NoChart
  /\ NoGeom

BandApply ==
  /\ \E category \in (Labels \cup {UnknownLabel}) \ DOMAIN bandSeen.applied :
       bandSeen' = [bandSeen EXCEPT !.applied =
                      [c \in DOMAIN bandSeen.applied \cup {category} |->
                         IF c = category THEN bandScale(band, category)
                         ELSE bandSeen.applied[c]]]
  /\ UNCHANGED <<lin, linCall, band, chartVars, geomVars>>

BandBandwidth ==
  /\ bandSeen.bandwidth = Uncalled
  /\ bandSeen' = [bandSeen EXCEPT !.bandwidth = bandwidth(band)]
  /\ UNCHANGED <<lin, linCall, band, chartVars, geomVars>>

NextBand == BandApply \/ BandBandwidth

SpecBand == InitBand /\ [][NextBand]_vars

-----------------------------------------------------------------------------
(* The layout harness: one render pass over options drawn from two         *)
(* families, one varying series type, axis index and axis configuration,   *)
(* one varying the bar series.                                              *)

Pt(x, y) == [x |-> x, y |-> y]

MaxSeries == 2

AxisCategories == <<"A", "B">>

LayoutData == {<<Pt("A", 10)>>, <<Pt("B", 30), Pt("Z", 40), Pt("A", 20)>>}
LayoutSeries ==
  [type : {"line", "bar", "pie"}, yAxisIndex : {Undefined, Some(0), Some(1)},
   data : LayoutData, barWidth : {Undefined}]
LayoutXAxes == {Undefined, Some([categories |-> AxisCategories])}
LayoutYAxes ==
  { [kind |-> "none"],
    [kind |-> "single", left |-> [min |-> Undefined, max |-> Some(R(60))]],
    [kind |-> "pair", left |-> NoAxisConfig, right |-> NoAxisConfig],
    [kind |-> "pair", left |-> [min |-> Some(R(5)), max |-> Some(R(5))],
                      right |-> [min |-> Undefined, max |-> Some(R(100))]] }

BarData == {<<>>, <<Pt("A", 10)>>, <<Pt("B", 20), Pt("A", 30)>>, <<Pt("A", 10), Pt("A", 30)>>,
            <<Pt("B", 0)>>, <<Pt("A", 0), Pt("B", 20)>>}
BarSeries ==
  [type : {"bar"}, yAxisIndex : {Undefined}, data : BarData,
   barWidth : {Undefined, Auto}]
  \cup {[type |-> "line", yAxisIndex |-> Undefined, data |-> <<Pt("A", 10)>>,
         barWidth |-> Undefined],
        [type |-> "bar", yAxisIndex |-> Undefined, data |-> <<Pt("B", 20), Pt("A", 30)>>,
         barWidth |-> Some(10)]}
BarXAxes == {Some([categories |-> <<"A">>]), Some([categories |-> AxisCategories])}

LayoutInputs ==
  [series : SeqsUpTo(LayoutSeries, MaxSeries), xAxis : LayoutXAxes, yAxis : LayoutYAxes,
   width : {Undefined}]
BarInputs ==
  [series : SeqsUpTo(BarSeries, MaxSeries), xAxis : BarXAxes, yAxis : {[kind |-> "none"]},
   width : {Some(400)}]

InitLayout ==
  /\ currentOptions \in LayoutInputs \cup BarInputs
  /\ containerWidth = 0
  /\ layout = NotRendered
  /\ NoLife
  /\ NoLinear
  /\ band = NoBand
  /\ bandSeen = NothingSeen
  /\ NoGeom

\* one call of render()
RenderPass ==
  /\ layout = NotRendered
  /\ layout' = render(currentOptions, containerWidth)
  /\ UNCHANGED <<geomVars, scaleVars, currentOptions, containerWidth, lifeVars>>

\* the rectangles a drag may span, in SVG coordinates
SelectionRects ==
  {[minX |-> R(a), maxX |-> R(b), minY |-> R(0), maxY |-> R(DEFAULT_HEIGHT)] :
     <<a, b>> \in {<<0, 210>>, <<210, 400>>, <<0, 650>>}}

\* handleMouseUp after a drag: findPointsInRect over the rendered chart
SelectInRect ==
  /\ layout # NotRendered
  /\ ~layout.thrown /\ ~layout.pie
  /\ picked = Idle
  /\ \E sel \in SelectionRects :
       picked' = [op |-> "select", rect |-> sel,
                  points |-> findPointsInRect(sel, currentOptions.series,
                                              layout.pointsBySeries, layout.barRects, 1)]
  /\ UNCHANGED <<curve, pie, annot, alias, hover, scaleVars, chartVars>>

NextLayout == RenderPass \/ SelectInRect

SpecLayout == InitLayout /\ [][NextLayout]_vars

-----------------------------------------------------------------------------
(* The chart lifecycle: createChart, update, resize, the debounced resize  *)
(* observer and destroy.                                                    *)

LineSeries == [type |-> "line", yAxisIndex |-> Undefined, data |-> <<Pt("A", 10)>>,
               barWidth |-> Undefined]
PieSeries  == [type |-> "pie", yAxisIndex |-> Undefined, data |-> <<Pt("A", 10)>>,
               barWidth |-> Undefined]

LineAtA == [type |-> "verticalLine", x |-> AtLabel("A"), x2 |-> Undefined,
            label |-> Undefined, labelPosition |-> Undefined, width |-> Undefined]

ChartSeriesLists ==
  {<<>>, <<LineSeries>>, <<PieSeries>>, <<PieSeries, LineSeries>>, <<PieSeries, PieSeries>>}
ChartXAxes  == {Undefined, Some([categories |-> AxisCategories])}
ChartWidths == {Undefined, Some(0), Some(400)}
ChartTooltips == {Undefined, Some(FALSE)}
ChartLegends  == {Undefined, Some(TRUE)}
ChartAnnotations == {Undefined, Some(<<LineAtA>>)}
ContainerWidths == {0, 500}

\* createChart is called with the three optional parts all left out or all given
ChartInputs ==
  [series : ChartSeriesLists, xAxis : ChartXAxes, yAxis : {[kind |-> "none"]},
   width : ChartWidths, tooltip : {Undefined}, legend : {Undefined},
   annotations : {Undefined}]
  \cup
  [series : ChartSeriesLists, xAxis : ChartXAxes, yAxis : {[kind |-> "none"]},
   width : ChartWidths, tooltip : {Some(FALSE)}, legend : {Some(TRUE)},
   annotations : {Some(<<LineAtA>>)}]

\* Partial<ChartOptions>: the fields an update call passes
ChartUpdates ==
  {[f \in {"series"} |-> v] : v \in ChartSeriesLists}
  \cup {[f \in {"xAxis"} |-> v] : v \in ChartXAxes}
  \cup {[f \in {"width"} |-> v] : v \in ChartWidths}
  \cup {[f \in {"tooltip"} |-> v] : v \in ChartTooltips}
  \cup {[f \in {"legend"} |-> v] : v \in ChartLegends}
  \cup {[f \in {"annotations"} |-> v] : v \in ChartAnnotations}

\* { ...currentOptions, ...newOptions }
Merge(current, newOptions) ==
  [f \in DOMAIN current \cup DOMAIN newOptions |->
     IF f \in DOMAIN newOptions THEN newOptions[f] ELSE current[f]]

\* !currentOptions.width
WidthFalsy(options) == options.width = Undefined \/ options.width = Some(0)

\* setTimeout(..., 150)
DebounceMs == 150
\* how far the time advances in one step
TickSteps == {50, 100}

\* the number of render passes a behaviour may take
MaxRenders == 3

Init ==
  /\ currentOptions = NoOptions
  /\ containerWidth \in ContainerWidths
  /\ layout = NotRendered
  /\ NoLife
  /\ NoLinear
  /\ band = NoBand
  /\ bandSeen = NothingSeen
  /\ NoGeom

\* createChart(container, options): the wrapper, the initial render, then
\* the observer
CreateChart ==
  /\ phase = "uncreated"
  /\ \E options \in ChartInputs :
       LET result == render(options, containerWidth)
       IN  /\ currentOptions' = options
           /\ createOptions' = options
           /\ layout' = result
           /\ dom' = renderElements([dom EXCEPT !.wrapper = TRUE], options, options,
                                    containerWidth, result)
           /\ lastRender' = [by |-> "createChart", threw |-> result.thrown]
           /\ phase' = IF result.thrown THEN "failed" ELSE "live"
           /\ resizeObserver' = (~result.thrown /\ WidthFalsy(options))
  /\ UNCHANGED <<geomVars, scaleVars, containerWidth, resizeTimeout, clock>>

\* chart.update(newOptions)
Update ==
  /\ phase = "live"
  /\ dom.renders < MaxRenders
  /\ \E newOptions \in ChartUpdates :
       LET merged == Merge(currentOptions, newOptions)
           result == render(merged, containerWidth)
       IN  /\ currentOptions' = merged
           /\ layout' = result
           /\ dom' = renderElements(dom, merged, createOptions, containerWidth, result)
           /\ lastRender' = [by |-> "update", threw |-> result.thrown]
  /\ UNCHANGED <<geomVars, scaleVars, containerWidth, phase, resizeObserver, resizeTimeout,
                 createOptions, clock>>

\* chart.resize()
Resize ==
  /\ phase = "live"
  /\ dom.renders < MaxRenders
  /\ LET result == render(currentOptions, containerWidth)
     IN  /\ layout' = result
         /\ dom' = renderElements(dom, currentOptions, createOptions, containerWidth,
                                  result)
         /\ lastRender' = [by |-> "resize", threw |-> result.thrown]
  /\ UNCHANGED <<geomVars, scaleVars, currentOptions, containerWidth, phase, resizeObserver,
                 resizeTimeout, createOptions, clock>>

\* an observer callback that renders at once, without a timer
ResizeNotifyRenders ==
  /\ resizeObserver
  /\ dom.renders < MaxRenders
  /\ \E w \in ContainerWidths :
       LET result == render(currentOptions, w)
       IN  /\ containerWidth' = w
           /\ layout' = result
           /\ dom' = renderElements(dom, currentOptions, createOptions, w, result)
           /\ lastRender' = [by |-> "observer", threw |-> result.thrown]
  /\ UNCHANGED <<geomVars, scaleVars, currentOptions, phase, resizeObserver, resizeTimeout,
                 createOptions, clock>>

\* the ResizeObserver callback: the container changed size; the pending
\* timer is cleared and a new one is set
ResizeNotify ==
  /\ resizeObserver
  /\ \E w \in ContainerWidths : containerWidth' = w
  /\ resizeTimeout' = TRUE
  /\ clock' = 0
  /\ UNCHANGED <<geomVars, scaleVars, currentOptions, layout, phase, resizeObserver,
                 lastRender, createOptions, dom>>

\* time passes while the debounce timer is pending
Tick ==
  /\ resizeTimeout
  /\ clock < DebounceMs
  /\ \E dt \in TickSteps :
       clock' = IF clock + dt > DebounceMs THEN DebounceMs ELSE clock + dt
  /\ UNCHANGED <<geomVars, scaleVars, currentOptions, containerWidth, layout, phase,
                 resizeObserver, resizeTimeout, lastRender, createOptions, dom>>

\* the debounce timer fires: render() runs from the timer callback
TimerFire ==
  /\ resizeTimeout
  /\ clock >= DebounceMs
  /\ dom.renders < MaxRenders
  /\ resizeTimeout' = FALSE
  /\ clock' = 0
  /\ LET result == render(currentOptions, containerWidth)
     IN  /\ layout' = result
         /\ dom' = renderElements(dom, currentOptions, createOptions, containerWidth,
                                  result)
         /\ lastRender' = [by |-> "timer", threw |-> result.thrown]
  /\ UNCHANGED <<geomVars, scaleVars, currentOptions, containerWidth, phase, resizeObserver,
                 createOptions>>

\* chart.destroy(): the observer is disconnected; the pending timer is not
\* cleared
Destroy ==
  /\ phase = "live"
  /\ phase' = "destroyed"
  /\ resizeObserver' = FALSE
  /\ dom' = destroyElements(dom)
  /\ UNCHANGED <<geomVars, scaleVars, currentOptions, containerWidth, layout, resizeTimeout,
                 lastRender, createOptions, clock>>

Next == CreateChart \/ Update \/ Resize \/ ResizeNotify \/ Tick \/ TimerFire \/ Destroy

Spec == Init /\ [][Next]_vars

\* ENABLED <<TimerFire>>_vars
TimerDue == resizeTimeout /\ clock >= DebounceMs /\ dom.renders < MaxRenders

\* time passes, and the event loop runs a timer callback that is due: weak
\* fairness of Tick and of TimerFire, the latter with its enabling condition
\* written out
SpecFair ==
  Spec /\ WF_vars(Tick) /\ ([]<>~TimerDue \/ []<><<TimerFire>>_vars)

-----------------------------------------------------------------------------
(* The hover harness: setupHover is called for a rendered chart with a     *)
(* line series and a bar series; mouse events and destroy then arrive in   *)
(* any order. geometry is what the closure of setupHover holds of its      *)
(* options; stage, gesture, lastPos, jumped and last record the course     *)
(* of the events: the stage of the press-release gesture under way, the    *)
(* custom events its mouseup and its click dispatched, the position of the *)
(* latest mousedown or mousemove, whether the gesture's mouseup came at    *)
(* another position, and what the latest handler found and did.            *)

HoverChart ==
  [series |-> <<[type |-> "line", yAxisIndex |-> Undefined,
                 data |-> <<Pt("A", 10), Pt("B", 30)>>, barWidth |-> Undefined],
                [type |-> "bar", yAxisIndex |-> Undefined,
                 data |-> <<Pt("B", 20)>>, barWidth |-> Undefined]>>,
   xAxis |-> Some([categories |-> AxisCategories]), yAxis |-> [kind |-> "none"],
   width |-> Some(400)]

RECURSIVE sortedXs(_)
\* Array.from(xPositionSet).sort((a, b) => a - b)
sortedXs(S) ==
  IF S = {} THEN <<>>
  ELSE LET least == CHOOSE x \in S : \A y \in S : RLe(x, y)
       IN  <<least>> \o sortedXs(S \ {least})

\* what render() hands to setupHover
HoverGeometry ==
  LET result == render(HoverChart, 0)
      series == HoverChart.series
  IN  [series |-> series,
       pointsBySeries |-> result.pointsBySeries,
       pointElements |-> [i \in DOMAIN series |->
                            IF series[i].type = "bar" THEN <<>>
                            ELSE result.pointsBySeries[i]],
       barElements |-> result.barRects,
       xPositions |-> sortedXs(UNION {{result.pointsBySeries[i][j].x :
                                         j \in DOMAIN result.pointsBySeries[i]} :
                                      i \in DOMAIN series})]

\* the positions of the mouse, relative to the SVG
\* a press point, points 4 and 6 pixels from it, one 14 pixels from it, and
\* a point on the bar
MousePoints == {<<86, 230>>, <<90, 230>>, <<86, 236>>, <<100, 236>>, <<330, 230>>}
MousePositions == {[x |-> R(p[1]), y |-> R(p[2])] : p \in MousePoints}

\* the number of custom events recorded between two presses
MaxEvents == 2

NoEvent == [event |-> "none", plain |-> FALSE, hadRect |-> FALSE, lit |-> FALSE]

Lit(h) ==
  h.radii # normalRadii(h.geometry) \/ h.opacities # baseOpacities(h.geometry)

InitHover ==
  /\ hover = [geometry |-> HoverGeometry, isDragging |-> FALSE, dragStart |-> Undefined,
              selectionRect |-> Undefined, wasDragging |-> FALSE,
              currentIndex |-> -1, hoverLine |-> FALSE, tooltipShown |-> FALSE,
              radii |-> normalRadii(HoverGeometry),
              opacities |-> baseOpacities(HoverGeometry),
              rects |-> 0, listening |-> TRUE, events |-> <<>>,
              stage |-> "idle", gesture |-> {}, lastPos |-> Undefined,
              jumped |-> FALSE, last |-> NoEvent]
  /\ curve = Idle /\ pie = Idle /\ annot = Idle /\ alias = Idle /\ picked = Idle
  /\ NoLinear
  /\ band = NoBand
  /\ bandSeen = NothingSeen
  /\ NoChart

HoverUnchanged == UNCHANGED <<curve, pie, annot, alias, picked, scaleVars, chartVars>>

\* mousedown on the hover area; the record of events starts anew
MouseDown ==
  /\ hover.listening
  /\ \E pos \in MousePositions :
       hover' = [handleMouseDown(hover.geometry, hover, pos) EXCEPT
                   !.events = <<>>, !.stage = "down", !.gesture = {},
                   !.lastPos = Some(pos), !.jumped = FALSE,
                   !.last = [event |-> "mousedown", plain |-> FALSE,
                             hadRect |-> hover.selectionRect # Undefined,
                             lit |-> Lit(hover)]]
  /\ HoverUnchanged

\* mousemove: over the hover area the hover handler runs, and the event
\* bubbles to document, where the drag handler runs
MouseMove ==
  /\ hover.listening
  /\ \E pos \in MousePositions, overArea \in BOOLEAN :
       LET hovered == IF overArea THEN handleMouseMove(hover.geometry, hover, pos)
                      ELSE hover
       IN  hover' = [handleDragMove(hover.geometry, hovered, pos) EXCEPT
                       !.lastPos = Some(pos),
                       !.last = [event |-> "mousemove", plain |-> FALSE,
                                 hadRect |-> hover.selectionRect # Undefined,
                                 lit |-> Lit(hover)]]
  /\ HoverUnchanged

\* mouseleave on the hover area
MouseLeave ==
  /\ hover.listening
  /\ hover' = [handleMouseLeave(hover.geometry, hover) EXCEPT
                 !.last = [event |-> "mouseleave", plain |-> FALSE,
                           hadRect |-> hover.selectionRect # Undefined,
                           lit |-> Lit(hover)]]
  /\ HoverUnchanged

\* mouseup anywhere in the document
MouseUp ==
  /\ hover.listening
  /\ \E pos \in MousePositions :
       LET after == handleMouseUp(hover.geometry, hover, pos)
           pressed == hover.stage = "down"
       IN  hover' = [after EXCEPT
                       !.stage = IF pressed THEN "up" ELSE @,
                       !.gesture = IF pressed /\ Len(after.events) > Len(hover.events)
                                   THEN @ \cup {"swp-chart-select"} ELSE @,
                       !.jumped = IF pressed THEN hover.lastPos # Some(pos) ELSE @,
                       !.last = [event |-> "mouseup", plain |-> FALSE,
                                 hadRect |-> hover.selectionRect # Undefined,
                                 lit |-> Lit(hover)]]
  /\ HoverUnchanged

\* click on the hover area: the click that ends a press-release gesture, or
\* a click dispatched on its own, which ends the tracking of a gesture under
\* way
Click ==
  /\ hover.listening
  /\ Len(hover.events) < MaxEvents
  /\ \E pos \in MousePositions :
       LET after == handleClick(hover.geometry, hover, pos)
           released == hover.stage = "up"
       IN  hover' = [after EXCEPT
                       !.stage = "idle",
                       !.gesture = IF released /\ Len(after.events) > Len(hover.events)
                                   THEN @ \cup {"swp-chart-click"} ELSE @,
                       !.last = [event |-> "click", plain |-> ~hover.wasDragging,
                                 hadRect |-> hover.selectionRect # Undefined,
                                 lit |-> Lit(hover)]]
  /\ HoverUnchanged

\* hoverState.destroy()
DestroyHover ==
  /\ hover.listening
  /\ hover' = [destroyHover(hover.geometry, hover) EXCEPT
                 !.last = [event |-> "destroy", plain |-> FALSE,
                           hadRect |-> hover.selectionRect # Undefined,
                           lit |-> Lit(hover)]]
  /\ HoverUnchanged

NextHover == MouseDown \/ MouseMove \/ MouseLeave \/ MouseUp \/ Click \/ DestroyHover

SpecHover == InitHover /\ [][NextHover]_vars

-----------------------------------------------------------------------------
(* Claims about the linear scale (checked under SpecLinear) *)

Applied == linCall.op = "apply"
Ticked  == linCall.op = "ticks"

\* (result - r0) * (d1 - d0) = (v - d0) * (r1 - r0): result is the linear
\* interpolation of v
Interpolates(result, v) ==
  RMul(RSub(result, lin.r0), RSub(lin.d1, lin.d0))
    = RMul(RSub(v, lin.d0), RSub(lin.r1, lin.r0))

EndpointsAndInterpolation ==
  /\ linCall.arg = lin.d0 => linCall.result = lin.r0
  /\ linCall.arg = lin.d1 => linCall.result = lin.r1
  /\ IsFinite(linCall.result)
  /\ Interpolates(linCall.result, linCall.arg)

\* C1 as stated: for any domain [d0, d1] and range [r0, r1], scale(d0) = r0 and
\* scale(d1) = r1 exactly, and any other v maps to the linear interpolation.
C1_AnyDomain == Applied => EndpointsAndInterpolation

\* C1 amended: the same for every domain with d0 # d1 (an inverted range
\* included); a zero-span domain maps d1 to r0, not to r1.
C1_NonZeroSpan == (Applied /\ lin.d0 # lin.d1) => EndpointsAndInterpolation

C1_Witness ==
  /\ Applied /\ lin.d0 = R(50) /\ lin.d1 = R(1000)
  /\ RLt(lin.r1, lin.r0)
  /\ linCall.arg = lin.d1 /\ linCall.result = lin.r1

\* C2: a scale whose domain has zero span returns the range start r0 for every
\* input, and the result is finite.
C2_ZeroSpanGivesRangeStart ==
  (Applied /\ lin.d0 = lin.d1) => (linCall.result = lin.r0 /\ IsFinite(linCall.result))

C2_Witness ==
  /\ Applied /\ lin.d0 = lin.d1 /\ lin.r0 # lin.r1
  /\ linCall.arg # lin.d0 /\ linCall.result = lin.r0

NiceMantissas == {1, 2, 5, 10}

\* step is rawStep with its mantissa snapped up to the nearest of 1, 2, 5, 10
\* times its power of ten
SnappedUp(rawStep, step) ==
  \E k \in Exps :
    /\ RLe(Pow10(k), rawStep) /\ RLt(rawStep, Pow10(k + 1))
    /\ \E m \in NiceMantissas :
         /\ step = RMul(R(m), Pow10(k))
         /\ RLe(rawStep, step)
         /\ \A m2 \in NiceMantissas : m2 < m => RLt(RMul(R(m2), Pow10(k)), rawStep)

NiceSteps == {RMul(R(m), Pow10(k)) : m \in NiceMantissas, k \in Exps}

Elems(seq) == {seq[i] : i \in DOMAIN seq}

\* seq holds, in increasing order, exactly the multiples of step inside [d0, d1]
ExactlyTheMultiples(seq, step) ==
  /\ \A i \in DOMAIN seq :
       /\ RLe(lin.d0, seq[i]) /\ RLe(seq[i], lin.d1)
       /\ RDiv(seq[i], step)[2] = 1
       /\ i > 1 => RLt(seq[i - 1], seq[i])
  /\ \A k \in RFloor(RDiv(lin.d0, step))[1]..RCeil(RDiv(lin.d1, step))[1] :
       LET t == RMul(R(k), step)
       IN  (RLe(lin.d0, t) /\ RLe(t, lin.d1)) => t \in Elems(seq)

TicksFollow(rawStep) ==
  /\ \E step \in NiceSteps :
       SnappedUp(rawStep, step) /\ ExactlyTheMultiples(linCall.result, step)
  /\ (lin.d0 = R(0) /\ lin.d1 = R(1000)) =>
       (R(0) \in Elems(linCall.result) /\ R(1000) \in Elems(linCall.result))

-----------------------------------------------------------------------------
(* Claims about the band scale (checked under SpecBand) *)

IsDistinct(seq) == \A i, j \in DOMAIN seq : seq[i] = seq[j] => i = j

PaddedStart == RAdd(band.r0, band.paddingOuter)
PaddedEnd   == RSub(band.r1, band.paddingOuter)
PaddedSpan  == RSub(PaddedEnd, PaddedStart)

\* the 0-based index of a category of a duplicate-free list
IndexOf(seq, c) == (CHOOSE i \in DOMAIN seq : seq[i] = c) - 1

-----------------------------------------------------------------------------
(* Claims about the layout pass (checked under SpecLayout) *)

Rendered     == layout # NotRendered
InPieMode    == Rendered /\ ~layout.thrown /\ layout.pie
AxisRendered == Rendered /\ ~layout.thrown /\ ~layout.pie

OnAxis(options) == Elems(options.xAxis[1].categories)

\* the data points of a series whose category is on the axis, in data order
KeptData(options, i) ==
  LET Known(p) == p.x \in OnAxis(options)
  IN  SelectSeq(options.series[i].data, Known)

\* C5: in an axis-based render a data point whose category is not in
\* xAxis.categories produces no computed point, every other data point produces
\* exactly one computed point carrying its category and value, and the computed
\* points of a series keep the order of the series' data.
C5_UnknownCategoriesSkipped ==
  AxisRendered =>
    \A i \in DOMAIN currentOptions.series :
      LET kept == KeptData(currentOptions, i)
          pts  == layout.pointsBySeries[i]
      IN  /\ Len(pts) = Len(kept)
          /\ \A j \in DOMAIN pts :
               /\ pts[j].dataX = kept[j].x /\ pts[j].dataY = kept[j].y
               /\ pts[j].x = bandScale(layout.xScale, kept[j].x)
               /\ pts[j].x # Undefined

C5_Witness ==
  /\ AxisRendered
  /\ \E i \in DOMAIN currentOptions.series :
       /\ currentOptions.series[i].data = <<Pt("B", 30), Pt("Z", 40), Pt("A", 20)>>
       /\ Len(layout.pointsBySeries[i]) = 2
       /\ layout.pointsBySeries[i][1].dataX = "B"
       /\ layout.pointsBySeries[i][2].dataX = "A"

AllPie(series) == \A i \in DOMAIN series : series[i].type = "pie"

NoScales ==
  layout.xScale = Undefined /\ layout.yScale = Undefined /\ layout.yScale2 = Undefined

\* C7 as stated: pie mode is taken exactly when every series has type 'pie'.
C7_EverySeriesPie ==
  Rendered => (InPieMode <=> AllPie(currentOptions.series))

\* C7 amended: pie mode is taken exactly when there is at least one series and
\* every series has type 'pie' (with no series at all the axis-based path is
\* taken); in pie mode no band or linear scale is built and no xAxis is needed;
\* with a series that is not 'pie' the axis-based path is taken.
C7_PieModeNeedsASeries ==
  Rendered =>
    /\ InPieMode <=> (Len(currentOptions.series) > 0 /\ AllPie(currentOptions.series))
    /\ InPieMode => NoScales
    /\ ~InPieMode => (layout.thrown \/ layout.xScale # Undefined)

C7_Witness ==
  /\ InPieMode /\ NoScales
  /\ Len(currentOptions.series) = 2
  /\ currentOptions.xAxis = Undefined

\* C8: each series is evaluated against its own numeric scale: a series with
\* yAxisIndex = 1 is mapped through the secondary scale when one exists, a
\* series with yAxisIndex 0 or unset through the primary scale, and the
\* secondary scale is built only if yAxis is a pair and some series has
\* yAxisIndex = 1.
C8_DualAxisRouting ==
  AxisRendered =>
    /\ layout.yScale2 # Undefined =>
         /\ currentOptions.yAxis.kind = "pair"
         /\ \E i \in DOMAIN currentOptions.series :
              currentOptions.series[i].yAxisIndex = Some(1)
    /\ \A i \in DOMAIN currentOptions.series :
         LET s   == currentOptions.series[i]
             pts == layout.pointsBySeries[i]
         IN  /\ (s.yAxisIndex = Some(1) /\ layout.yScale2 # Undefined) =>
                  /\ layout.seriesYScale[i] = "yScale2"
                  /\ \A j \in DOMAIN pts :
                       pts[j].y = scale(layout.yScale2, R(pts[j].dataY))
             /\ (s.yAxisIndex = Undefined \/ s.yAxisIndex = Some(0)) =>
                  /\ layout.seriesYScale[i] = "yScale"
                  /\ \A j \in DOMAIN pts :
                       pts[j].y = scale(layout.yScale, R(pts[j].dataY))

C8_Witness ==
  /\ AxisRendered /\ layout.yScale2 # Undefined
  /\ layout.yScale2.d1 # layout.yScale.d1
  /\ Len(currentOptions.series) = 2
  /\ currentOptions.series[1].yAxisIndex = Some(1)
  /\ currentOptions.series[2].yAxisIndex = Undefined
  /\ layout.pointsBySeries[1][1].y = scale(layout.yScale2, R(layout.pointsBySeries[1][1].dataY))
  /\ layout.pointsBySeries[1][1].y # scale(layout.yScale, R(layout.pointsBySeries[1][1].dataY))

\* the largest value over the series mapped through the scale `which`
\* (0 when there is none)
LargestMapped(which) ==
  MaxOver(UNION {{currentOptions.series[i].data[j].y :
                    j \in DOMAIN currentOptions.series[i].data} :
                  i \in {k \in DOMAIN currentOptions.series :
                           layout.seriesYScale[k] = which}}, 0)

\* the inferred domain of an axis with no explicit min and max
InferredDomain(s, which) ==
  LET max == RCeil(RMul(R(LargestMapped(which)), Q(11, 10)))
  IN  /\ s.d0 = R(0)
      /\ s.d1 = IF max = R(0) THEN R(1) ELSE max

NoExplicitBounds(cfg) == cfg.min = Undefined /\ cfg.max = Undefined

LeftConfig  == IF currentOptions.yAxis.kind = "none" THEN NoAxisConfig
               ELSE currentOptions.yAxis.left
RightConfig == IF currentOptions.yAxis.kind = "pair" THEN currentOptions.yAxis.right
               ELSE NoAxisConfig

\* C9: with no explicit min/max the domain of a numeric axis is 0 to the
\* largest value over all series mapped through that axis' scale, times 1.1,
\* rounded up (max = min + 1 if that equals the minimum); the scale never has a
\* zero-span domain.
C9_DomainCoversMappedSeries ==
  AxisRendered =>
    /\ NoExplicitBounds(LeftConfig) => InferredDomain(layout.yScale, "yScale")
    /\ layout.yScale.d0 # layout.yScale.d1
    /\ layout.yScale2 # Undefined =>
         /\ NoExplicitBounds(RightConfig) => InferredDomain(layout.yScale2, "yScale2")
         /\ layout.yScale2.d0 # layout.yScale2.d1

\* the bar series with a data point at category c
ContributingAt(c) ==
  {k \in DOMAIN currentOptions.series :
     /\ currentOptions.series[k].type = "bar"
     /\ \E j \in DOMAIN currentOptions.series[k].data :
          currentOptions.series[k].data[j].x = c}

\* C10: the bars at a category form one group of k bars, k the number of bar
\* series with data there; the group is k*w + (k-1)*4 wide, centred on the
\* band position, and the series at ordinal j starts at
\* center - groupWidth/2 + j*(w + gap).
C10_GroupBySeriesCount ==
  AxisRendered =>
    \A i \in DOMAIN currentOptions.series :
      \A n \in DOMAIN layout.barRects[i] :
        LET rect   == layout.barRects[i][n]
            k      == Cardinality(ContributingAt(rect.dataX))
            j      == Cardinality({m \in ContributingAt(rect.dataX) : m < i})
            gap    == IF k > 1 THEN R(4) ELSE R(0)
            groupWidth == RAdd(RMul(R(k), rect.width), RMul(R(k - 1), R(4)))
            center == bandScale(layout.xScale, rect.dataX)
        IN  rect.x = RAdd(RSub(center, RDiv(groupWidth, R(2))),
                          RMul(R(j), RAdd(rect.width, gap)))

-----------------------------------------------------------------------------
(* Claims about the lifecycle (checked under Spec) *)

RenderRan == lastRender.by # "none"

\* the options name no category axis although some series needs one
XAxisMissing(options) ==
  /\ options.xAxis = Undefined
  /\ ~(Len(options.series) > 0 /\ AllPie(options.series))

GroupWidthAt(rect) ==
  LET entries == buildBarSeriesAtX(currentOptions.series,
                                   barSeriesOf(currentOptions.series), 1, <<>>)
      count   == Len(entries[rect.dataX])
  IN  RAdd(RMul(R(count), rect.width), RMul(R(count - 1), R(BarGapPx)))

\* C11: in every render with bar series the band scale's outer padding is at
\* least half of the widest bar group at any category, and every bar rectangle
\* lies horizontally inside [padding.left, width - padding.right], for fixed
\* pixel bar widths and for the bar width 'auto'.
C11_BarsInsideChartArea ==
  AxisRendered =>
    \A i \in DOMAIN currentOptions.series :
      \A n \in DOMAIN layout.barRects[i] :
        LET rect == layout.barRects[i][n]
        IN  /\ RLe(RDiv(GroupWidthAt(rect), R(2)), layout.xScale.paddingOuter)
            /\ RLe(R(PaddingLeft), rect.x)
            /\ RLe(RAdd(rect.x, rect.width), RSub(layout.width, R(PaddingRight)))

-----------------------------------------------------------------------------
(* The curve harness: a sequence of pixel-space points is handed to the    *)
(* two curve generators.                                                    *)

MaxPoints == 4
CurveXs == {0, 50, 100}
CurveYs == {0, 10, 100}
CurvePoints ==
  {[x |-> R(x), y |-> R(y)] : x \in CurveXs, y \in CurveYs}
  \cup {[x |-> R(150), y |-> R(110)]}

InitCurve ==
  /\ \E points \in SeqsUpTo(CurvePoints, MaxPoints) :
       curve = [op |-> "input", points |-> points,
                linear |-> Undefined, monotone |-> Undefined]
  /\ pie = Idle /\ annot = Idle /\ alias = Idle /\ hover = Idle /\ picked = Idle
  /\ NoLinear
  /\ band = NoBand
  /\ bandSeen = NothingSeen
  /\ NoChart

\* linearCurve(points)
LinearCurveCall ==
  /\ curve.linear = Undefined
  /\ curve' = [curve EXCEPT !.linear = Some(linearCurve(curve.points))]
  /\ UNCHANGED <<pie, annot, alias, hover, picked, scaleVars, chartVars>>

\* monotoneCurve(points)
MonotoneCurveCall ==
  /\ curve.monotone = Undefined
  /\ curve' = [curve EXCEPT !.monotone = Some(monotoneCurve(curve.points))]
  /\ UNCHANGED <<pie, annot, alias, hover, picked, scaleVars, chartVars>>

NextCurve == LinearCurveCall \/ MonotoneCurveCall

SpecCurve == InitCurve /\ [][NextCurve]_vars

-----------------------------------------------------------------------------
(* Claims about the curve generators (checked under SpecCurve) *)

MonotoneDone == curve.monotone # Undefined
LinearDone   == curve.linear # Undefined

\* v lies between a and b, whichever is larger, end points included
Between(v, a, b) == (RLe(a, v) /\ RLe(v, b)) \/ (RLe(b, v) /\ RLe(v, a))

StrictlyMonotonicInY(points) ==
  \/ \A i \in 1..(Len(points) - 1) : RLt(points[i].y, points[i + 1].y)
  \/ \A i \in 1..(Len(points) - 1) : RLt(points[i + 1].y, points[i].y)

Secant(points, i) == RDiv(segDyOf(points, i), segDxOf(points, i))

OppositeSigns(a, b) == (RLt(a, R(0)) /\ RLt(R(0), b)) \/ (RLt(b, R(0)) /\ RLt(R(0), a))

\* the mean of two slopes of equal sign, limited in magnitude to 3 times the
\* smaller magnitude
LimitedMean(a, b) ==
  LET mean    == RDiv(RAdd(a, b), R(2))
      smaller == IF RLt(RAbs(a), RAbs(b)) THEN RAbs(a) ELSE RAbs(b)
      limit   == RMul(R(3), smaller)
  IN  IF RLe(RAbs(mean), limit) THEN mean
      ELSE IF RLt(mean, R(0)) THEN RNeg(limit) ELSE limit

ExpectedTangent(a, b) ==
  IF OppositeSigns(a, b) \/ a = R(0) \/ b = R(0) THEN R(0) ELSE LimitedMean(a, b)

\* C13: in a 3-point sequence whose two secant slopes have opposite signs the
\* middle point gets tangent 0: the second control point of the first segment
\* and the first control point of the second segment have the peak's y; and
\* every interior point gets tangent 0 when its adjacent slopes have opposite
\* sign or one of them is zero, otherwise the mean of the two slopes limited
\* in magnitude to 3 times the smaller slope magnitude (read off the control
\* points: cp2 of the segment before is p - dx/3 * t, cp1 of the segment after
\* is p + dx/3 * t).
C13_InteriorTangents ==
  (MonotoneDone /\ Len(curve.points) >= 3) =>
    LET points == curve.points
        path   == curve.monotone[1]
    IN  \A i \in 2..(Len(points) - 1) :
          (segDxOf(points, i - 1) # R(0) /\ segDxOf(points, i) # R(0)) =>
            LET mPrev == Secant(points, i - 1)
                mCurr == Secant(points, i)
                t     == ExpectedTangent(mPrev, mCurr)
                before == RDiv(segDxOf(points, i - 1), R(3))
                after  == RDiv(segDxOf(points, i), R(3))
            IN  /\ path[i].cp2.y = RSub(points[i].y, RMul(before, t))
                /\ path[i + 1].cp1.y = RAdd(points[i].y, RMul(after, t))
                /\ (Len(points) = 3 /\ OppositeSigns(mPrev, mCurr)) =>
                     /\ path[2].cp2.y = points[2].y
                     /\ path[3].cp1.y = points[2].y

\* a peak with unequal slopes 2 and -9/5
C13_Witness ==
  /\ MonotoneDone
  /\ curve.points = <<[x |-> R(0), y |-> R(0)], [x |-> R(50), y |-> R(100)],
                      [x |-> R(100), y |-> R(10)]>>
  /\ curve.monotone[1][2].cp2.y = R(100)
  /\ curve.monotone[1][3].cp1.y = R(100)

\* C14: for n >= 3 points monotoneCurve returns a move to the first point
\* followed by exactly n-1 cubic segments, the i-th ending at input point i+1;
\* for 0, 1 and 2 points it returns what linearCurve returns: the empty string,
\* a single move, a move and one line.
C14_PathThroughEveryPoint ==
  MonotoneDone =>
    LET points == curve.points
        n      == Len(points)
        path   == curve.monotone[1]
    IN  /\ n >= 3 =>
             /\ Len(path) = n
             /\ path[1] = MoveTo(points[1])
             /\ \A i \in 1..(n - 1) : path[i + 1].op = "C" /\ path[i + 1].to = points[i + 1]
        /\ (n <= 2 /\ LinearDone) => curve.monotone = curve.linear
        /\ n = 0 => path = <<>>
        /\ n = 1 => path = <<MoveTo(points[1])>>
        /\ n = 2 => path = <<MoveTo(points[1]), LineTo(points[2])>>

C14_Witness ==
  /\ MonotoneDone /\ LinearDone
  /\ Len(curve.points) = 4
  /\ Len(curve.monotone[1]) = 4
  /\ curve.monotone[1][4].op = "C"
  /\ curve.monotone[1][4].to = curve.points[4]
  /\ curve.monotone # curve.linear

\* C15: linearCurve returns the empty string for no points, a single move for
\* one point, and for n >= 2 points a move to the first point followed by
\* exactly n-1 line commands to the remaining points in input order.
C15_LinearPath ==
  LinearDone =>
    LET points == curve.points
        n      == Len(points)
        path   == curve.linear[1]
    IN  /\ n = 0 => path = <<>>
        /\ n = 1 => path = <<MoveTo(points[1])>>
        /\ n >= 2 =>
             /\ Len(path) = n
             /\ path[1] = MoveTo(points[1])
             /\ \A i \in 2..n : path[i] = LineTo(points[i])

C15_Witness ==
  /\ LinearDone
  /\ Len(curve.points) = 3
  /\ curve.points[1] # curve.points[3]
  /\ curve.linear[1] = <<MoveTo(curve.points[1]), LineTo(curve.points[2]),
                         LineTo(curve.points[3])>>

-----------------------------------------------------------------------------
(* The pie harness: a list of series and a pad angle are handed to         *)
(* renderPie.                                                               *)

MaxPieSeries == 3

PieData ==
  { <<>>, <<Pt("Q1", R(350))>>, <<Pt("Q1", R(280))>>, <<Pt("Q1", R(120))>>,
    <<Pt("a", R(100)), Pt("b", R(50))>>, <<Pt("Q1", R(0))>>, <<Pt("Q1", R(-280))>> }
PieInputSeries ==
  {[type |-> "pie", name |-> "s", data |-> d] : d \in PieData}
  \cup {[type |-> "line", name |-> "s", data |-> <<Pt("Q1", R(350))>>]}
PadAngles == {0, 2}

InitPie ==
  /\ \E series \in SeqsUpTo(PieInputSeries, MaxPieSeries), padAngle \in PadAngles :
       pie = [op |-> "input", series |-> series, padAngle |-> padAngle,
              result |-> Undefined]
  /\ curve = Idle /\ annot = Idle /\ alias = Idle /\ hover = Idle /\ picked = Idle
  /\ NoLinear
  /\ band = NoBand
  /\ bandSeen = NothingSeen
  /\ NoChart

\* renderPie(options)
RenderPieCall ==
  /\ pie.result = Undefined
  /\ pie' = [pie EXCEPT !.result = Some(renderPie(pie.series, pie.padAngle))]
  /\ UNCHANGED <<curve, annot, alias, hover, picked, scaleVars, chartVars>>

NextPie == RenderPieCall

SpecPie == InitPie /\ [][NextPie]_vars

-----------------------------------------------------------------------------
(* Claims about renderPie (checked under SpecPie) *)

PieDone == pie.result # Undefined

RECURSIVE SumSeq(_)
\* the sum of a sequence of numbers
SumSeq(seq) == IF seq = <<>> THEN R(0) ELSE RAdd(seq[1], SumSeq(Tail(seq)))

\* the values of all data points of the pie series, series by series
PieValuesOf(i) == [j \in DOMAIN pie.series[i].data |-> pie.series[i].data[j].y]
SeriesSum(i) == SumSeq(PieValuesOf(i))
PieSeriesIn == {i \in DOMAIN pie.series : pie.series[i].type = "pie"}
GrandTotal ==
  SumSeq([i \in DOMAIN pie.series |-> IF i \in PieSeriesIn THEN SeriesSum(i) ELSE R(0)])

\* the pie series with at least one data point, as 0-based indices, in order
SlicedSeries ==
  LET HasData(i) == pie.series[i].type = "pie" /\ Len(pie.series[i].data) > 0
      idx == [i \in DOMAIN pie.series |-> i]
  IN  SelectSeq(idx, HasData)

\* C16: renderPie produces no slices (an empty list with total 0, no
\* non-finite number) whenever the grand total over all pie series is zero,
\* and one slice for every pie series with at least one data point whenever
\* the grand total is not zero.
C16_ZeroTotalGivesNoSlices ==
  PieDone =>
    LET result == pie.result[1]
    IN  /\ GrandTotal = R(0) => (result.slices = <<>> /\ result.total = R(0))
        /\ GrandTotal # R(0) =>
             /\ Len(result.slices) = Len(SlicedSeries)
             /\ \A k \in DOMAIN result.slices :
                  result.slices[k].seriesIndex = SlicedSeries[k] - 1
        /\ \A k \in DOMAIN result.slices :
             IsFinite(result.slices[k].percent) /\ IsFinite(result.slices[k].endAngle)

\* values 280 and -280 cancel: the total is zero although the series have data
C16_Witness ==
  /\ PieDone
  /\ Len(pie.series) = 2
  /\ pie.series[1].data = <<Pt("Q1", R(280))>>
  /\ pie.series[2].data = <<Pt("Q1", R(-280))>>
  /\ pie.result[1] = [slices |-> <<>>, total |-> R(0)]

AllPositive ==
  \A i \in PieSeriesIn : \A j \in DOMAIN pie.series[i].data :
    RLt(R(0), pie.series[i].data[j].y)

\* C17: for pie series with positive values and no padAngle the first slice
\* starts at -90 degrees, each following slice starts where the previous one
\* ended, each slice spans value/total of the full circle and has
\* percent = value/total*100; the spans sum to a full turn and the percentages
\* to 100.
C17_SequentialSlices ==
  (PieDone /\ AllPositive /\ pie.padAngle = 0 /\ pie.result[1].slices # <<>>) =>
    LET slices == pie.result[1].slices
        total  == GrandTotal
        span(k) == RSub(slices[k].endAngle, slices[k].startAngle)
    IN  /\ slices[1].startAngle = Q(-1, 2)
        /\ \A k \in 2..Len(slices) : slices[k].startAngle = slices[k - 1].endAngle
        /\ \A k \in DOMAIN slices :
             /\ span(k) = RMul(RDiv(slices[k].value, total), R(2))
             /\ slices[k].percent = RMul(RDiv(slices[k].value, total), R(100))
        /\ SumSeq([k \in DOMAIN slices |-> span(k)]) = R(2)
        /\ SumSeq([k \in DOMAIN slices |-> slices[k].percent]) = R(100)

\* the values 350, 280, 120: percent 140/3 for the first slice; the last slice
\* ends at 3/2, a full turn after -1/2
C17_Witness ==
  /\ PieDone /\ pie.padAngle = 0
  /\ Len(pie.series) = 3
  /\ pie.series[1].data = <<Pt("Q1", R(350))>>
  /\ pie.series[2].data = <<Pt("Q1", R(280))>>
  /\ pie.series[3].data = <<Pt("Q1", R(120))>>
  /\ Len(pie.result[1].slices) = 3
  /\ pie.result[1].slices[1].percent = Q(140, 3)
  /\ pie.result[1].slices[3].endAngle = Q(3, 2)

\* C18: every slice's value is the sum of all data points of its series; the
\* slice carries a breakdown exactly when its series has more than one data
\* point, with one entry per data point, in data order, with that point's
\* label and value (so the breakdown values sum to the slice value).
C18_ValueAndBreakdown ==
  PieDone =>
    \A k \in DOMAIN pie.result[1].slices :
      LET slice == pie.result[1].slices[k]
          data  == pie.series[slice.seriesIndex + 1].data
      IN  /\ slice.value = SeriesSum(slice.seriesIndex + 1)
          /\ (slice.breakdown # Undefined) <=> (Len(data) > 1)
          /\ slice.breakdown # Undefined =>
               LET breakdown == slice.breakdown[1]
               IN  /\ Len(breakdown) = Len(data)
                   /\ \A j \in DOMAIN data :
                        breakdown[j].label = data[j].x /\ breakdown[j].value = data[j].y
                   /\ SumSeq([j \in DOMAIN breakdown |-> breakdown[j].value]) = slice.value

C18_Witness ==
  /\ PieDone
  /\ Len(pie.result[1].slices) = 2
  /\ pie.result[1].slices[1].value = R(150)
  /\ pie.result[1].slices[1].breakdown =
       Some(<<[label |-> "a", value |-> R(100)], [label |-> "b", value |-> R(50)]>>)
  /\ pie.result[1].slices[2].value = R(350)
  /\ pie.result[1].slices[2].breakdown = Undefined

-----------------------------------------------------------------------------
(* The annotation harness: annotations are rendered against the band scale *)
(* of a three-category axis, as render() calls renderAnnotations.           *)

MaxAnnotations == 2

AnnotCategories == <<"A", "B", "C">>
Anchors ==
  {AtIndex(0), AtIndex(3), AtLabel("C"), AtLabel("Z")}
AnnotLabels == {Undefined, Some("note")}
AnnotationPool ==
  [type : {"verticalLine"}, x : Anchors, x2 : {Undefined}, label : AnnotLabels,
   labelPosition : {Undefined}, width : {Undefined}]
  \cup
  [type : {"region"}, x : Anchors, x2 : {Undefined} \cup {Some(a) : a \in Anchors},
   label : AnnotLabels, labelPosition : {Undefined}, width : {Undefined}]

AnnotScale ==
  createBandScale(AnnotCategories,
                  <<R(PaddingLeft), RSub(R(DEFAULT_WIDTH), R(PaddingRight))>>, R(0))

InitAnnot ==
  /\ \E annotations \in SeqsUpTo(AnnotationPool, MaxAnnotations) :
       annot = [op |-> "input", annotations |-> annotations, result |-> Undefined]
  /\ curve = Idle /\ pie = Idle /\ alias = Idle /\ hover = Idle /\ picked = Idle
  /\ NoLinear
  /\ band = NoBand
  /\ bandSeen = NothingSeen
  /\ NoChart

\* renderAnnotations(options)
RenderAnnotationsCall ==
  /\ annot.result = Undefined
  /\ annot' = [annot EXCEPT !.result =
                 Some(renderAnnotations(annot.annotations, AnnotScale,
                                        R(DEFAULT_HEIGHT), DEFAULT_PADDING,
                                        AnnotCategories))]
  /\ UNCHANGED <<curve, pie, alias, hover, picked, scaleVars, chartVars>>

NextAnnot == RenderAnnotationsCall

SpecAnnot == InitAnnot /\ [][NextAnnot]_vars

-----------------------------------------------------------------------------
(* Claims about renderAnnotations (checked under SpecAnnot) *)

AnnotDone == annot.result # Undefined

\* the category an anchor refers to is on the axis
Resolves(a) ==
  IF a.kind = "index" THEN a.index \in 0..(Len(AnnotCategories) - 1)
  ELSE a.label \in Elems(AnnotCategories)

PositionOf(a) ==
  bandScale(AnnotScale,
            IF a.kind = "index" THEN AnnotCategories[a.index + 1] ELSE a.label)

AllAnchorsResolve(annotation) ==
  /\ Resolves(annotation.x)
  /\ annotation.x2 # Undefined => Resolves(annotation.x2[1])

\* C19: an annotation any of whose anchors is an out-of-range index or an
\* unknown label is dropped: it yields no line, no region and no label; the
\* annotations whose anchors all resolve are each rendered, in order, at the
\* band-scale position of the referenced category.
C19_BadAnchorsDropped ==
  AnnotDone =>
    LET IsLine(a)   == a.type = "verticalLine" /\ AllAnchorsResolve(a)
        IsRegion(a) == a.type = "region" /\ AllAnchorsResolve(a)
        Labelled(a) == AllAnchorsResolve(a) /\ a.label # Undefined
        lines   == SelectSeq(annot.annotations, IsLine)
        regions == SelectSeq(annot.annotations, IsRegion)
        result  == annot.result[1]
    IN  /\ Len(result.lines) = Len(lines)
        /\ \A k \in DOMAIN lines : result.lines[k].x1 = PositionOf(lines[k].x)
        /\ Len(result.regions) = Len(regions)
        /\ \A k \in DOMAIN regions :
             LET a == PositionOf(regions[k].x)
             IN  IF regions[k].x2 = Undefined
                 THEN result.regions[k].x = RSub(a, Q(3, 4))
                 ELSE result.regions[k].x = RMin(a, PositionOf(regions[k].x2[1]))
        /\ Len(result.labels) = Len(SelectSeq(annot.annotations, Labelled))

-----------------------------------------------------------------------------
(* The accessors domain() and range() and the arrays they share            *)
(*                                                                          *)
(* A scale's closure captures the array objects the caller passed, besides  *)
(* the numbers computed from them at construction. The harness keeps the    *)
(* current content of those two objects (heapDomain, heapRange); the band   *)
(* scale's domain() makes a new array on each call (copy).                  *)

\* createLinearScale: scale.domain = () => domain, the caller's own array
linearDomainAccessor(heapDomain) == [content |-> heapDomain, shared |-> TRUE]

\* createBandScale: scale.domain = () => [...domain], a copy of the caller's
\* array as it is when domain() is called
bandDomainAccessor(heapDomain) == [content |-> heapDomain, shared |-> FALSE]

\* scale.range = () => range, for both scales the caller's own array
rangeAccessor(heapRange) == [content |-> heapRange, shared |-> TRUE]

AliasLinearDomains == {<<R(0), R(100)>>, <<R(0), R(1000)>>}
AliasBandDomains == {<<"Jan", "Feb">>, <<"Jan", "Feb", "Mar">>}
AliasRanges == {<<R(0), R(500)>>, <<R(500), R(0)>>}
AliasWrites == {R(50)}
AliasLabelWrites == {"Dec"}

NothingReturned == [domain |-> Undefined, range |-> Undefined]

InitAlias ==
  /\ \/ \E domain \in AliasLinearDomains, range \in AliasRanges :
          alias = [op |-> "built", kind |-> "linear",
                   scale |-> createLinearScale(domain, range),
                   givenDomain |-> domain, givenRange |-> range,
                   heapDomain |-> domain, heapRange |-> range,
                   copy |-> Undefined, returned |-> NothingReturned,
                   applied |-> Undefined]
     \/ \E domain \in AliasBandDomains, range \in AliasRanges :
          alias = [op |-> "built", kind |-> "band",
                   scale |-> createBandScale(domain, range, R(0)),
                   givenDomain |-> domain, givenRange |-> range,
                   heapDomain |-> domain, heapRange |-> range,
                   copy |-> Undefined, returned |-> NothingReturned,
                   applied |-> Undefined]
  /\ curve = Idle /\ pie = Idle /\ annot = Idle /\ hover = Idle /\ picked = Idle
  /\ NoLinear
  /\ band = NoBand
  /\ bandSeen = NothingSeen
  /\ NoChart

\* scale(value) on the first element of the domain given at construction
AliasApply ==
  /\ alias' = [alias EXCEPT !.applied =
                 Some(IF alias.kind = "linear"
                      THEN scale(alias.scale, alias.givenDomain[1])
                      ELSE bandScale(alias.scale, alias.givenDomain[1]))]
  /\ UNCHANGED <<curve, pie, annot, hover, picked, scaleVars, chartVars>>

\* scale.domain(): the caller receives an array
AliasDomain ==
  /\ LET r == IF alias.kind = "linear" THEN linearDomainAccessor(alias.heapDomain)
              ELSE bandDomainAccessor(alias.heapDomain)
     IN  alias' = [alias EXCEPT !.returned.domain = Some(r.content),
                                !.copy = IF r.shared THEN alias.copy ELSE Some(r.content)]
  /\ UNCHANGED <<curve, pie, annot, hover, picked, scaleVars, chartVars>>

\* scale.range(): the caller receives an array
AliasRange ==
  /\ alias' = [alias EXCEPT !.returned.range = Some(rangeAccessor(alias.heapRange).content)]
  /\ UNCHANGED <<curve, pie, annot, hover, picked, scaleVars, chartVars>>

\* the caller writes into the array it passed as domain (for the linear scale
\* also the array domain() returned)
WriteDomainArray ==
  /\ \E k \in DOMAIN alias.heapDomain :
       \E v \in (IF alias.kind = "linear" THEN AliasWrites ELSE AliasLabelWrites) :
         alias' = [alias EXCEPT !.heapDomain[k] = v]
  /\ UNCHANGED <<curve, pie, annot, hover, picked, scaleVars, chartVars>>

\* the caller writes into the array it passed as range (also the array
\* range() returned)
WriteRangeArray ==
  /\ \E k \in DOMAIN alias.heapRange : \E v \in AliasWrites :
       alias' = [alias EXCEPT !.heapRange[k] = v]
  /\ UNCHANGED <<curve, pie, annot, hover, picked, scaleVars, chartVars>>

\* the caller writes into the array the band scale's domain() returned
WriteDomainCopy ==
  /\ alias.copy # Undefined
  /\ \E k \in DOMAIN alias.copy[1] : \E v \in AliasLabelWrites :
       alias' = [alias EXCEPT !.copy = Some([alias.copy[1] EXCEPT ![k] = v])]
  /\ UNCHANGED <<curve, pie, annot, hover, picked, scaleVars, chartVars>>

NextAlias ==
  \/ AliasApply \/ AliasDomain \/ AliasRange
  \/ WriteDomainArray \/ WriteRangeArray \/ WriteDomainCopy

SpecAlias == InitAlias /\ [][NextAlias]_vars

-----------------------------------------------------------------------------
(* Claims about the accessors (checked under SpecAlias) *)

\* what the scale computes for the first element of the pair (or list) that
\* domain() returned: the start of the range that range() returned for a
\* linear scale, a defined position for a band scale
ConsistentWithScale ==
  (alias.returned.domain # Undefined /\ alias.returned.range # Undefined) =>
    IF alias.kind = "linear"
    THEN scale(alias.scale, alias.returned.domain[1][1]) = alias.returned.range[1][1]
    ELSE bandScale(alias.scale, alias.returned.domain[1][1]) # Undefined

\* C20: a scale's domain and range are fixed at construction: after any calls
\* of the scale, domain() and range() and any modification by the caller of an
\* array passed to the constructor or returned by domain()/range(), domain()
\* and range() return the pair (or category list) given at construction and
\* agree with what applying the scale computes.
C20_DomainAndRangeFixed ==
  /\ alias.returned.domain # Undefined => alias.returned.domain[1] = alias.givenDomain
  /\ alias.returned.range # Undefined => alias.returned.range[1] = alias.givenRange
  /\ ConsistentWithScale

-----------------------------------------------------------------------------
(* Claims about the elements of the lifecycle (checked under Spec) *)

\* a step that runs a render pass
RenderStep == dom'.renders # dom.renders

\* the pass of this step reads the options and the container width the pass
\* before it read
SameInputs ==
  /\ dom.renders > 0
  /\ currentOptions' = currentOptions
  /\ containerWidth' = dom.clientWidth

FreshAnnotations ==
  drawAnnotations(currentOptions.annotations, currentOptions.xAxis[1], layout.xScale)

\* the latest pass was started by update and drew an axis chart
UpdatedAxisChart == lastRender.by = "update" /\ ~layout.thrown /\ ~layout.pie

\* C22: after update(newOptions) the chart shows what a chart freshly created
\* with the merged options would show, for every option field, the
\* annotations included.
C22_UpdateEqualsFreshChart ==
  UpdatedAxisChart =>
    /\ layout = render(currentOptions, dom.clientWidth)
    /\ dom.paths = linePaths(currentOptions.series, layout)
    /\ dom.annotations = FreshAnnotations

\* the same, for the charts whose annotations option never changed
C22_UnlessAnnotationsUpdated ==
  (UpdatedAxisChart /\ currentOptions.annotations = createOptions.annotations) =>
    /\ layout = render(currentOptions, dom.clientWidth)
    /\ dom.paths = linePaths(currentOptions.series, layout)
    /\ dom.annotations = FreshAnnotations

\* C23: destroy() is final: once the chart is destroyed no render pass runs
\* and no SVG, tooltip, legend or hover listener is created any more.
C23_DestroyIsFinal ==
  [][phase = "destroyed" => dom' = dom]_vars

\* the same, for a chart destroyed while no debounce timer was pending
C23_FinalWithoutPendingTimer ==
  [][(phase = "destroyed" /\ ~resizeTimeout) => dom' = dom]_vars

\* a render pass has run on a destroyed chart
C23_RenderedAfterDestroy ==
  phase = "destroyed" /\ lastRender.by = "timer" /\ dom.listeners # {}

-----------------------------------------------------------------------------
(* Claims about the resize debounce (checked under SpecFair) *)

\* a render pass started by the resize observer or its timer
ObserverRender == RenderStep /\ lastRender'.by \in {"timer", "observer"}

\* a notification does not render by itself
NotifyDoesNotRender == [][ResizeNotify => ~RenderStep]_vars

\* a render pass of the observer runs only when 150 ms have passed since the
\* latest notification, and it uses the timer up: one pass for a burst
RenderOnlyWhenDue ==
  [][ObserverRender => (resizeTimeout /\ clock >= DebounceMs /\ ~resizeTimeout')]_vars

\* a pending timer leads to its render pass, unless a further notification
\* starts the 150 ms again (or the passes of the behaviour are used up)
BurstLeadsToRender ==
  (resizeTimeout /\ clock > 0) ~>
     (~resizeTimeout \/ clock = 0 \/ dom.renders = MaxRenders)

Created == phase # "uncreated"

\* C24 as written: resize notifications are debounced by 150 ms, and a chart
\* created with an explicit width never renders on a notification.
C24_ExplicitWidthNeverRerenders ==
  /\ NotifyDoesNotRender
  /\ RenderOnlyWhenDue
  /\ BurstLeadsToRender
  /\ [](Created /\ createOptions.width # Undefined =>
          ~resizeObserver /\ ~resizeTimeout /\ lastRender.by # "timer")

\* C24: resize notifications are debounced by 150 ms, and a chart created
\* with an explicit width other than 0 never renders on a notification.
C24_Debounce ==
  /\ NotifyDoesNotRender
  /\ RenderOnlyWhenDue
  /\ BurstLeadsToRender
  /\ [](Created /\ ~WidthFalsy(createOptions) =>
          ~resizeObserver /\ ~resizeTimeout /\ lastRender.by # "timer")

\* the timer rendered a chart created without a width, in a container whose
\* width changed
C24_Witness ==
  /\ lastRender.by = "timer"
  /\ createOptions.width = Undefined
  /\ ~layout.thrown /\ ~layout.pie
  /\ dom.clientWidth = 500 /\ dom.renders = 2

-----------------------------------------------------------------------------
(* Claims about the elements a render pass leaves (checked under Spec) *)

\* an update call whose render pass throws
FailedUpdate == RenderStep /\ lastRender'.by = "update" /\ lastRender'.threw

\* C25: an update that throws leaves the chart as it was: the current
\* options are unchanged and the SVG, tooltip, legend and hover listeners of
\* the pass before are still in place.
C25_FailedUpdateIsAtomic ==
  [][FailedUpdate =>
       /\ currentOptions' = currentOptions
       /\ dom'.svgs = dom.svgs
       /\ dom'.tooltips = dom.tooltips
       /\ dom'.legends = dom.legends
       /\ dom'.listeners = dom.listeners]_vars

\* what a failed update does leave alone: the handle and the observer
C25_FailedUpdateKeepsHandle ==
  [][FailedUpdate =>
       /\ phase' = phase
       /\ resizeObserver' = resizeObserver
       /\ resizeTimeout' = resizeTimeout
       /\ dom'.wrapper = dom.wrapper]_vars

\* an update has thrown and left a live chart without any element
C25_LeftBlank ==
  /\ phase = "live" /\ lastRender.by = "update" /\ lastRender.threw
  /\ dom.svgs = {} /\ dom.listeners = {} /\ dom.tooltips = {}
  /\ currentOptions # createOptions

\* the chart is live and its latest render pass did not throw
LiveAndDrawn == phase = "live" /\ RenderRan /\ ~lastRender.threw

\* the tooltip the hover handlers hold is the one the latest pass created
TooltipOfLatestPass ==
  /\ dom.hoverTooltip = dom.renders
  /\ dom.hoverTooltip \in dom.tooltips

\* C26: when the tooltip option is false the hover handlers of the latest
\* pass hold no tooltip and the wrapper holds no tooltip element; otherwise
\* they hold the tooltip that pass created.
C26_HoverTooltipFollowsOption ==
  LiveAndDrawn =>
    IF currentOptions.tooltip = Some(FALSE)
    THEN dom.hoverTooltip = Null /\ dom.tooltips = {}
    ELSE TooltipOfLatestPass

\* the same, the false option only on a chart that never created a tooltip
C26_UnlessSwitchedOff ==
  (LiveAndDrawn /\ (currentOptions.tooltip # Some(FALSE) \/ dom.tooltip = Null)) =>
    IF currentOptions.tooltip = Some(FALSE)
    THEN dom.hoverTooltip = Null /\ dom.tooltips = {}
    ELSE TooltipOfLatestPass

\* the hover handlers hold a tooltip that an earlier pass destroyed
C26_StaleTooltip ==
  /\ LiveAndDrawn
  /\ currentOptions.tooltip = Some(FALSE)
  /\ dom.hoverTooltip # Null /\ dom.hoverTooltip \notin dom.tooltips

\* C27: after a render pass that did not throw only its own elements are
\* live: one SVG in the SVG container, at most one tooltip and one legend in
\* the wrapper, and the hover listeners of that pass alone.
C27_OnlyLatestArtefacts ==
  LiveAndDrawn =>
    /\ dom.svgs = {dom.renders}
    /\ dom.listeners = {dom.renders}
    /\ dom.tooltips \subseteq {dom.renders}
    /\ dom.legends \subseteq {dom.renders}

\* a third pass has replaced an SVG, a tooltip and a legend
C27_Witness ==
  /\ LiveAndDrawn
  /\ dom.renders = 3
  /\ dom.tooltips = {3} /\ dom.legends = {3}
  /\ lastRender.by = "update"

-----------------------------------------------------------------------------
(* Claims about the rectangle selection (checked under SpecLayout) *)

Selected == picked # Idle

\* the bars of series i the rectangle selects, in drawing order
SelectedBars(i) ==
  LET bars == layout.barRects[i]
      F[k \in 0..Len(bars)] ==
        IF k = 0 THEN <<>>
        ELSE IF barInRect(picked.rect, bars[k]) THEN Append(F[k - 1], bars[k])
             ELSE F[k - 1]
  IN  F[Len(bars)]

\* the points reported for series i, in the order of the event
ReportedFor(i) ==
  LET F[k \in 0..Len(picked.points)] ==
        IF k = 0 THEN <<>>
        ELSE IF picked.points[k].seriesIndex = i - 1
             THEN Append(F[k - 1], picked.points[k])
             ELSE F[k - 1]
  IN  F[Len(picked.points)]

BarSeriesIn == {i \in DOMAIN currentOptions.series : currentOptions.series[i].type = "bar"}

ReportsItsBars(i) ==
  /\ Len(ReportedFor(i)) = Len(SelectedBars(i))
  /\ \A k \in DOMAIN SelectedBars(i) :
       /\ ReportedFor(i)[k].value = SelectedBars(i)[k].dataY
       /\ ReportedFor(i)[k].x = SelectedBars(i)[k].dataX

\* every data point of series i produced a bar
EveryPointDrawn(i) == Len(layout.barRects[i]) = Len(currentOptions.series[i].data)

\* C28: every point a rectangle selection reports for a selected bar is the
\* data point that bar was drawn from, with its category and its value.
C28_SelectionReportsDrawnPoint ==
  Selected => \A i \in BarSeriesIn : ReportsItsBars(i)

\* the same, for the bar series every data point of which produced a bar
C28_WhenEveryPointDrawn ==
  Selected => \A i \in BarSeriesIn : EveryPointDrawn(i) => ReportsItsBars(i)

\* a selection has reported a bar with the value of another data point
C28_WrongPointReported ==
  /\ Selected
  /\ \E i \in BarSeriesIn : \E k \in DOMAIN SelectedBars(i) :
       /\ k \in DOMAIN ReportedFor(i)
       /\ ReportedFor(i)[k].value # SelectedBars(i)[k].dataY

-----------------------------------------------------------------------------
(* Claims about the hover and drag handlers (checked under SpecHover) *)

Both == {"swp-chart-select", "swp-chart-click"}

\* C29: a press-release gesture (mousedown, mouse moves, mouseup, click)
\* dispatches at most one of 'swp-chart-select' and 'swp-chart-click'.
C29_SelectOrClick == hover.gesture # Both

\* the same, for the gestures whose mouseup comes where the latest mousedown
\* or mousemove was reported
C29_WhenReleasedWhereMoved == ~hover.jumped => hover.gesture # Both

\* a gesture has dispatched a selection and then a click
C29_BothDispatched ==
  /\ hover.gesture = Both
  /\ hover.stage = "idle"
  /\ Len(hover.events) = 2
  /\ hover.events[1].type = "swp-chart-select"
  /\ hover.events[2].type = "swp-chart-click"

PlainClick == hover.last.event = "click" /\ hover.last.plain

Cleared == hover.rects = 0 /\ ~Lit(hover)

\* C30: under every interleaving of mousedown, mouse move, mouseup, click and
\* destroy the SVG holds at most one selection rectangle, and after a plain
\* click (no drag) or after destroy it holds none and every point radius and
\* bar opacity is back to its normal value.
C30_PlainClickOrDestroyRestores ==
  /\ hover.rects <= 1
  /\ PlainClick \/ hover.last.event = "destroy" => Cleared

\* C30, as the code has it: at most one selection rectangle; none after a
\* plain click or destroy; radii and opacities are back to normal after
\* destroy, and after a plain click that found a selection rectangle.
C30_OneRectangleClearedOnClick ==
  /\ hover.rects <= 1
  /\ PlainClick => hover.rects = 0
  /\ (PlainClick /\ hover.last.hadRect) \/ hover.last.event = "destroy" => Cleared

\* a plain click has removed a selection rectangle and its highlights
C30_Witness ==
  /\ PlainClick
  /\ hover.last.hadRect
  /\ hover.last.lit
  /\ Cleared

\* hover.destroy() has removed a selection rectangle and its highlights
C30_DestroyedWhileSelected ==
  /\ hover.last.event = "destroy"
  /\ hover.last.hadRect
  /\ hover.last.lit
  /\ Cleared

\* a plain click that found no selection rectangle has left a hovered point
\* enlarged
C30_HoverHighlightKept == PlainClick /\ ~hover.last.hadRect /\ Lit(hover)

====
